---- MODULE Spec2Model ----
(***************************************************************************)
(* A model of the account_classifier pipeline of dify-ai-backend:          *)
(* transaction normalisation, the flexible loaders, the Claude predictor's *)
(* reply handling, the MF ledger export and the orchestration with its     *)
(* database persistence.                                                   *)
(*                                                                         *)
(* Representation.                                                         *)
(*  - A Python value is a tagged record: [t |-> "none"], [t |-> "str",     *)
(*    v |-> s], [t |-> "int", v |-> n], [t |-> "float", v |-> n],          *)
(*    [t |-> "list", v |-> <<values>>], [t |-> "dict", v |-> address],     *)
(*    [t |-> "datetime", v |-> s].                                         *)
(*  - A float is held in fixed point: the float x is the integer x * Unit. *)
(*  - A dict is an object with identity: it lives on a heap (a sequence of *)
(*    functions from keys to values) and is named by its address, so that  *)
(*    aliasing and copying are visible.                                    *)
(*  - A Japanese character is written <xxxx>, its code point in lower-case *)
(*    hexadecimal, so that substring tests and str.lower() behave as on    *)
(*    the original text.                                                   *)
(***************************************************************************)
EXTENDS Integers, Sequences, FiniteSets, TLC

VARIABLES
  heap,                 \* the dict objects of the process, by address
  input,                \* the arguments of the call under way
  transactions,         \* run_account_classifier: the local list transactions (addresses)
  pre,                  \* history: the transactions' contents when classification starts
  predLog,              \* history: per transaction, what predictor.predict did
  pc,                   \* position of the call
  idx,                  \* index of the loop under way (1-based)
  errors,               \* run_account_classifier: the local list errors
  mf_csv,               \* run_account_classifier: the local mf_csv
  saved,                \* persist_transactions_to_db: saved
  perrors,              \* persist_transactions_to_db: its local list errors
  entry_ids,            \* persist_transactions_to_db: entry_ids
  prediction_id,        \* persist_transactions_to_db: prediction_id of the transaction under way
  attempted,            \* history: indices whose persistence was attempted
  db,                   \* the datastore: rows of claude_predictions and mf_journal_entries
  result,               \* what the call handed to its caller
  ldr,                  \* loader study: the call and its outcome
  prd,                  \* predictor study: the call and its outcome
  exp,                  \* export study: the call and its outcome
  fun,                  \* normaliser study: the call and its outcome
  mf                    \* routers/mf.py: the export cache, the clock and the last lookup

pipeVars == <<input, transactions, pre, predLog, pc, idx, errors, mf_csv,
              saved, perrors, entry_ids, prediction_id, attempted, db, result>>
vars == <<heap, input, transactions, pre, predLog, pc, idx, errors, mf_csv,
          saved, perrors, entry_ids, prediction_id, attempted, db, result, ldr, prd, exp, fun, mf>>

---------------------------------------------------------------------------
(* Bounds of the model *)

MaxTx == 3              \* transactions in one batch

(* The float 1.0 in fixed point *)
Unit == 1000

---------------------------------------------------------------------------
(* Text literals of the source *)

ZAPPI == "<96d1><8cbb>"                          \* 雑費
URIAGEDAKA == "<58f2><4e0a><9ad8>"               \* 売上高
FUTSU_YOKIN == "<666e><901a><9810><91d1>"        \* 普通預金
KAZEI_SHIIRE_10 == "<8ab2><7a0e><4ed5><5165>10%" \* 課税仕入10%
KAZEI_URIAGE_10 == "<8ab2><7a0e><58f2><4e0a>10%" \* 課税売上10%
TAISHOGAI == "<5bfe><8c61><5916>"                \* 対象外
TEKIKAKU == "<9069><683c>"                       \* 適格
TAG_AI == "AI<81ea><52d5><4ed5><8a33>"           \* AI自動仕訳
IMPORT_JA == "<30a4><30f3><30dd><30fc><30c8>"    \* インポート
SHUUNYUU == "<53ce><5165>"                       \* 収入
NYUUKIN == "<5165><91d1>"                        \* 入金
SHISHUTSU == "<652f><51fa>"                      \* 支出
SHUKKIN == "<51fa><91d1>"                        \* 出金
SHUU == "<53ce>"                                 \* 収
TOKYO_DENRYOKU == "<6771><4eac><96fb><529b>"     \* 東京電力
DENKIDAI == "<96fb><6c17><4ee3>"                 \* 電気代
SUIDOU_KOUNETSUHI == "<6c34><9053><5149><71b1><8cbb>"  \* 水道光熱費
RYOHI == "<65c5><8cbb><4ea4><901a><8cbb>"        \* 旅費交通費
SHOUMOUHIN == "<6d88><8017><54c1><8cbb>"         \* 消耗品費

---------------------------------------------------------------------------
(* Python values *)

VNone == [t |-> "none"]
VStr(s) == [t |-> "str", v |-> s]
VInt(n) == [t |-> "int", v |-> n]
VFlt(n) == [t |-> "float", v |-> n]
VList(q) == [t |-> "list", v |-> q]
VDict(a) == [t |-> "dict", v |-> a]
VBool(b) == [t |-> "bool", v |-> b]

IsNone(x) == x.t = "none"
IsStr(x) == x.t = "str"
IsDict(x) == x.t = "dict"
IsList(x) == x.t = "list"
IsNum(x) == x.t \in {"int", "float"}

(* dict.get(k): the value, None when the key is absent *)
Get(d, k) == IF k \in DOMAIN d THEN d[k] ELSE VNone

(* d[k] = v *)
Put(d, k, v) == (k :> v) @@ d

(* d.pop(k, None) *)
Pop(d, k) == << >> @@ [x \in (DOMAIN d) \ {k} |-> d[x]]

(* bool(x) *)
Truthy(h, x) ==
  CASE x.t = "none" -> FALSE
    [] x.t = "str" -> x.v # ""
    [] x.t = "int" -> x.v # 0
    [] x.t = "float" -> x.v # 0
    [] x.t = "bool" -> x.v
    [] x.t = "list" -> Len(x.v) > 0
    [] x.t = "dict" -> DOMAIN h[x.v] # {}
    [] OTHER -> TRUE

(* a or b *)
Or_(h, a, b) == IF Truthy(h, a) THEN a ELSE b

---------------------------------------------------------------------------
(* Text *)

CharAt(s, i) == SubSeq(s, i, i)

(* the least and the greatest member of a non-empty set of integers *)
MinOf(S) == CHOOSE x \in S : \A y \in S : x <= y
MaxOf(S) == CHOOSE x \in S : \A y \in S : x >= y

(* str.find(sub) from position i: the first index of sub in s, 0 when absent *)
FindFrom(s, sub, i) ==
  LET at == {p \in i..(Len(s) - Len(sub) + 1) : SubSeq(s, p, p + Len(sub) - 1) = sub}
  IN IF at = {} THEN 0 ELSE MinOf(at)

Find(s, sub) == FindFrom(s, sub, 1)

(* sub in s *)
Contains(s, sub) == Find(s, sub) > 0

Whitespace == {" ", "\n", "\t"}

(* the positions of s that hold no white space *)
Inked(s) == {i \in 1..Len(s) : CharAt(s, i) \notin Whitespace}

LStrip(s) == IF Inked(s) = {} THEN "" ELSE SubSeq(s, MinOf(Inked(s)), Len(s))

RStrip(s) == IF Inked(s) = {} THEN "" ELSE SubSeq(s, 1, MaxOf(Inked(s)))

(* str.strip() *)
Strip(s) == RStrip(LStrip(s))

Uppers == "ABCDEFGHIJKLMNOPQRSTUVWXYZ"
Lowers == "abcdefghijklmnopqrstuvwxyz"

LowerChar(c) ==
  LET i == Find(Uppers, c) IN IF i > 0 THEN CharAt(Lowers, i) ELSE c

RECURSIVE Lower(_)
(* str.lower() *)
Lower(s) ==
  IF Len(s) = 0 THEN ""
  ELSE IF Len(s) = 1 THEN LowerChar(s)
  ELSE LET m == Len(s) \div 2 IN Lower(SubSeq(s, 1, m)) \o Lower(SubSeq(s, m + 1, Len(s)))

Digits == "0123456789"
IsDigit(c) == Len(c) = 1 /\ Find(Digits, c) > 0
DigitVal(c) == Find(Digits, c) - 1

AllDigits(s) == \A i \in 1..Len(s) : IsDigit(CharAt(s, i))

RECURSIVE NatOf(_)
(* the number a digit string denotes *)
NatOf(s) ==
  IF Len(s) = 0 THEN 0
  ELSE NatOf(SubSeq(s, 1, Len(s) - 1)) * 10 + DigitVal(CharAt(s, Len(s)))

(* the fraction digits of a decimal literal, in fixed point (three places) *)
FracOf(s) == NatOf(SubSeq(s \o "000", 1, 3))

(* float(s) for a text s: <<x>> in fixed point, <<>> when float() raises.   *)
(* Decimal literals with an optional sign and at most three fraction digits *)
DecimalValue(ip, fp, neg) ==
  IF Len(ip) + Len(fp) > 0 /\ AllDigits(ip) /\ AllDigits(fp) /\ Len(fp) <= 3
  THEN << (IF neg THEN 0 - 1 ELSE 1) * (NatOf(ip) * Unit + FracOf(fp)) >>
  ELSE << >>

DecimalParts(body, dot, neg) ==
  DecimalValue(IF dot > 0 THEN SubSeq(body, 1, dot - 1) ELSE body,
               IF dot > 0 THEN SubSeq(body, dot + 1, Len(body)) ELSE "", neg)

DecimalText(s) ==
  IF Len(s) > 0 /\ CharAt(s, 1) \in {"-", "+"}
  THEN DecimalParts(Tail(s), Find(Tail(s), "."), CharAt(s, 1) = "-")
  ELSE DecimalParts(s, Find(s, "."), FALSE)

(* the float nan, which no comparison holds for: a value outside the range *)
(* of the fixed point numbers of this model                                *)
NaN == 0 - 2000000000
IsNaN(n) == n = NaN

(* float() reads "nan" in any case, with an optional sign, as nan *)
ParseFloat(s0) ==
  IF Lower(Strip(s0)) \in {"nan", "+nan", "-nan"} THEN << NaN >> ELSE DecimalText(Strip(s0))

Abs(n) == IF n < 0 THEN 0 - n ELSE n

RECURSIVE TrimZeros(_)
TrimZeros(s) ==
  IF Len(s) > 1 /\ CharAt(s, Len(s)) = "0" THEN TrimZeros(SubSeq(s, 1, Len(s) - 1)) ELSE s

Pad3(n) == IF n < 10 THEN "00" \o ToString(n) ELSE IF n < 100 THEN "0" \o ToString(n) ELSE ToString(n)

(* repr of a float held in fixed point: 5000.0, 0.87, -1.5 *)
FloatRepr(n) ==
  IF IsNaN(n) THEN "nan" ELSE
  (IF n < 0 THEN "-" ELSE "") \o ToString(Abs(n) \div Unit) \o "." \o TrimZeros(Pad3(Abs(n) % Unit))

(* str(x) *)
PyStr(x) ==
  CASE x.t = "none" -> "None"
    [] x.t = "str" -> x.v
    [] x.t = "int" -> ToString(x.v)
    [] x.t = "float" -> FloatRepr(x.v)
    [] x.t = "bool" -> IF x.v THEN "True" ELSE "False"
    [] x.t = "datetime" -> x.v
    [] x.t = "list" -> "[...]"
    [] x.t = "dict" -> "{...}"
    [] OTHER -> "?"

(* float(x): <<fixed point>> or <<>> when float() raises *)
PyFloat(x) ==
  CASE x.t = "int" -> << x.v * Unit >>
    [] x.t = "float" -> << x.v >>
    [] x.t = "bool" -> << IF x.v THEN Unit ELSE 0 >>
    [] x.t = "str" -> ParseFloat(x.v)
    [] OTHER -> << >>

---------------------------------------------------------------------------
(* The heap of dict objects *)

(* a new dict object with contents d: the heap after, the address is its length *)
Alloc(h, d) == Append(h, d)

(* a value with every mapping it refers to written out *)
RECURSIVE Deep(_, _)
Deep(h, x) ==
  IF IsDict(x) THEN [t |-> "dict", v |-> [k \in DOMAIN h[x.v] |-> Deep(h, h[x.v][k])]]
  ELSE IF IsList(x) THEN [t |-> "list", v |-> [i \in 1..Len(x.v) |-> Deep(h, x.v[i])]]
  ELSE x

RECURSIVE CopyValue(_, _)
RECURSIVE CopyList(_, _, _)
RECURSIVE CopyFields(_, _, _, _)

(* model_dump (python mode) of a value of an Any field or of an extra:   *)
(* scalars are kept, a dict or a list is rebuilt, recursively, as a new    *)
(* object. Returns the heap after and the dumped value.                    *)
CopyValue(h, x) ==
  IF x.t = "dict" THEN
    LET r == CopyFields(h, h[x.v], DOMAIN h[x.v], << >>)
        h2 == Alloc(r.h, r.d)
    IN [h |-> h2, v |-> VDict(Len(h2))]
  ELSE IF x.t = "list" THEN
    LET r == CopyList(h, x.v, << >>) IN [h |-> r.h, v |-> VList(r.q)]
  ELSE [h |-> h, v |-> x]

CopyList(h, q, acc) ==
  IF Len(q) = 0 THEN [h |-> h, q |-> acc]
  ELSE LET r == CopyValue(h, Head(q)) IN CopyList(r.h, Tail(q), Append(acc, r.v))

(* the fields keys of d, one after the other; those that hold no container *)
(* are kept as they are                                                    *)
CopyFields(h, d, keys, acc) ==
  LET containers == {k \in keys : d[k].t \in {"dict", "list"}} IN
  IF containers = {} THEN [h |-> h, d |-> acc @@ [k \in keys |-> d[k]]]
  ELSE LET k == CHOOSE x \in containers : TRUE
           r == CopyValue(h, d[k])
       IN CopyFields(r.h, d, keys \ {k}, Put(acc, k, r.v))

(* a dump that hands out the value of _ref itself *)
DumpRefShared(h, x) == [h |-> h, v |-> x]

(* what Transaction.model_dump does with the value of _ref *)
DumpRef(h, x) == CopyValue(h, x)

---------------------------------------------------------------------------
(* transaction.py: the Transaction model *)

(* a coercion that quotes the text it is given, as repr does *)
_coerce_str_quoting(value) == IF IsNone(value) THEN VStr("") ELSE VStr("'" \o PyStr(value) \o "'")

(* Transaction._coerce_str *)
_coerce_str(value) == IF IsNone(value) THEN VStr("") ELSE VStr(PyStr(value))

(* Transaction._coerce_amount *)
FloatOrZero(f) == IF f # << >> THEN VFlt(f[1]) ELSE VFlt(0)

(* a coercion to the magnitude *)
_coerce_amount_magnitude(value) ==
  IF IsNone(value) \/ PyFloat(value) = << >> THEN VFlt(0) ELSE VFlt(Abs(PyFloat(value)[1]))

_coerce_amount(value) == IF IsNone(value) THEN VFlt(0) ELSE FloatOrZero(PyFloat(value))

(* a normalisation whose default is income *)
DirectionForDefaultIncome(raw) ==
  IF raw \in {"income", "in", SHUUNYUU, NYUUKIN} THEN "income"
  ELSE IF raw \in {"expense", "out", SHISHUTSU, SHUKKIN} THEN "expense"
  ELSE "income"

(* Transaction._normalize_direction *)
DirectionFor(raw) ==
  IF raw \in {"income", "in", SHUUNYUU, NYUUKIN} THEN "income"
  ELSE IF raw \in {"expense", "out", SHISHUTSU, SHUKKIN} THEN "expense"
  ELSE IF Contains(raw, "in") \/ Contains(raw, SHUU) THEN "income"
  ELSE "expense"

_normalize_direction(value) ==
  DirectionFor(Lower(Strip(IF IsNone(value) THEN "" ELSE PyStr(value))))

(* pydantic, Optional[str]: a str or None, nothing is coerced *)
OptStrValid(x) == x.t \in {"none", "str"}

(* pydantic, Optional[float]: None, a number, or a text float() reads *)
OptFloatValid(x) == x.t = "none" \/ (x.t \in {"int", "float", "bool", "str"} /\ PyFloat(x) # << >>)
OptFloatOf(x) == IF IsNone(x) THEN VNone ELSE VFlt(PyFloat(x)[1])

(* pydantic, Optional[Union[str, datetime]]: None, a str, a datetime, or a *)
(* number read as a timestamp                                              *)
DateValid(x) == x.t \in {"none", "str", "datetime", "int", "float"}
DateOf(x) == IF x.t \in {"int", "float"} THEN [t |-> "datetime", v |-> "@" \o PyStr(x)] ELSE x

OptStrFields == {"accountName", "subAccountItem", "fileName", "reasoning", "claude_description"}
OptFloatFields == {"confidence", "account_confidence", "vendor_confidence"}
ModelFields == {"date", "vendor", "description", "amount", "direction"}
                 \cup OptStrFields \cup OptFloatFields \cup {"_ref", "ref_"}

(* Transaction.model_validate(d): does the mapping pass validation *)
TransactionValid(d) ==
  /\ DateValid(Get(d, "date"))
  /\ \A k \in OptStrFields : OptStrValid(Get(d, k))
  /\ \A k \in OptFloatFields : OptFloatValid(Get(d, k))

(* the validated fields and the extras of d, before model_dump rebuilds    *)
(* the containers among them; _ref is read by alias, then by name        *)
TransactionFields(d) ==
  LET ref == IF "_ref" \in DOMAIN d THEN d["_ref"] ELSE Get(d, "ref_")
      keys == ((DOMAIN d) \ {"ref_"}) \cup (ModelFields \ {"ref_"})
  IN [k \in keys |->
        CASE k = "date" -> DateOf(Get(d, k))
          [] k \in {"vendor", "description"} -> _coerce_str(Get(d, k))
          [] k = "amount" -> _coerce_amount(Get(d, k))
          [] k = "direction" ->
               VStr(IF "direction" \in DOMAIN d THEN _normalize_direction(d[k]) ELSE "expense")
          [] k \in OptStrFields -> Get(d, k)
          [] k \in OptFloatFields -> OptFloatOf(Get(d, k))
          [] k = "_ref" -> ref
          [] OTHER -> d[k]]

(* model_dump(by_alias=True): the fields rebuilt on the heap, the _ref     *)
(* among them, and the new dict allocated                                  *)
DumpedDict(h2) == [ok |-> TRUE, h |-> h2, v |-> VDict(Len(h2))]

DumpWithRef(rest, ref) == DumpedDict(Alloc(ref.h, Put(rest.d, "_ref", ref.v)))

DumpRest(rest, ref_) == DumpWithRef(rest, DumpRef(rest.h, ref_))

model_dump(h, f) == DumpRest(CopyFields(h, f, (DOMAIN f) \ {"_ref"}, << >>), f["_ref"])

(* normalize_transaction_dict applied to a mapping with contents d:        *)
(* [ok, h, v]: ok is FALSE for the result None, else v is the new dict     *)
NormalizeMapping(h, d) ==
  IF ~TransactionValid(d) THEN [ok |-> FALSE, h |-> h, v |-> VNone]
  ELSE model_dump(h, TransactionFields(d))

(* normalize_transaction_dict *)
normalize_transaction_dict(h, tx) ==
  IF ~IsDict(tx) THEN [ok |-> FALSE, h |-> h, v |-> VNone]
  ELSE NormalizeMapping(h, h[tx.v])

RECURSIVE NormalizeEach(_, _, _)
RECURSIVE NormalizeStep(_, _, _)

(* the loop body of normalize_transactions: n is kept unless it is None *)
NormalizeStep(n, items, out) ==
  IF n.ok THEN NormalizeEach(n.h, Tail(items), Append(out, n.v))
  ELSE NormalizeEach(n.h, Tail(items), out)

NormalizeEach(h, items, out) ==
  IF Len(items) = 0 THEN [h |-> h, q |-> out]
  ELSE NormalizeStep(normalize_transaction_dict(h, Head(items)), items, out)

(* normalize_transactions: [h, q] *)
normalize_transactions(h, items) == NormalizeEach(h, items, << >>)

---------------------------------------------------------------------------
(* flexible_ocr_loader.py: extract_transactions_from_inferred_accounts *)

CharsOf(s) == [i \in 1..Len(s) |-> VStr(CharAt(s, i))]

RECURSIVE SetToSeq(_)
SetToSeq(S) == IF S = {} THEN << >> ELSE LET x == CHOOSE y \in S : TRUE IN <<x>> \o SetToSeq(S \ {x})

KeysOf(d) == LET q == SetToSeq(DOMAIN d) IN [i \in 1..Len(q) |-> VStr(q[i])]

(* for item in x: can x be iterated, and what it yields *)
Iterable(x) == x.t \in {"list", "str", "dict"}
IterOf(h, x) ==
  CASE x.t = "list" -> x.v
    [] x.t = "str" -> CharsOf(x.v)
    [] x.t = "dict" -> KeysOf(h[x.v])
    [] OTHER -> << >>

(* (ocr_data or {}).get(k) inside try/except: None when it raises *)
OcrDefault(h, ocr_data, k) ==
  IF ~Truthy(h, ocr_data) THEN VNone
  ELSE IF IsDict(ocr_data) THEN Get(h[ocr_data.v], k)
  ELSE VNone

(* the three mappings handed to normalize_transaction_dict, lines 197-246 *)
InferredShaped(h, item, d, vendor_default, date_default, file_name) ==
  Put([date |-> Or_(h, Or_(h, Get(d, "date"), date_default), VStr("")),
       vendor |-> Or_(h, Or_(h, Get(d, "vendor"), vendor_default), VStr("")),
       description |-> Or_(h, Or_(h, Get(d, "description"), Get(d, "summary")), VStr("")),
       amount |-> Or_(h, Get(d, "amount"), VInt(0)),
       direction |-> Or_(h, Or_(h, Get(d, "direction"), Get(d, "type")), VStr("expense")),
       fileName |-> Or_(h, Or_(h, Get(d, "fileName"), file_name), VStr(""))],
      "_ref", item)

InferredChild(h, child, c, d, vendor_default, date_default, file_name) ==
  Put([date |-> Or_(h, Or_(h, Or_(h, Get(c, "date"), Get(d, "date")), date_default), VStr("")),
       vendor |-> Or_(h, Or_(h, Or_(h, Get(c, "vendor"), Get(d, "vendor")), vendor_default), VStr("")),
       description |-> Or_(h, Or_(h, Or_(h, Get(c, "description"), Get(c, "summary")),
                                   Get(d, "description")), VStr("")),
       amount |-> Or_(h, Get(c, "amount"), VInt(0)),
       direction |-> Or_(h, Or_(h, Or_(h, Get(c, "direction"), Get(c, "type")),
                                 Get(d, "direction")), VStr("expense")),
       fileName |-> Or_(h, Or_(h, Or_(h, Get(c, "fileName"), Get(d, "fileName")), file_name),
                        VStr(""))],
      "_ref", child)

InferredFallback(h, item, d, vendor_default, date_default, file_name) ==
  Put([date |-> Or_(h, Or_(h, Get(d, "date"), date_default), VStr("")),
       vendor |-> Or_(h, Or_(h, Get(d, "vendor"), vendor_default), VStr("")),
       description |-> Or_(h, Or_(h, Get(d, "description"), Get(d, "summary")), VStr("")),
       amount |-> Or_(h, Get(d, "amount"), VInt(0)),
       direction |-> Or_(h, Get(d, "direction"), VStr("expense")),
       fileName |-> Or_(h, Or_(h, Get(d, "fileName"), file_name), VStr(""))],
      "_ref", item)

RECURSIVE InferredChildren(_, _, _, _, _, _, _)
RECURSIVE ChildKept(_, _, _, _, _, _, _)
RECURSIVE InferredItems(_, _, _, _, _, _)
RECURSIVE ItemKept(_, _, _, _, _, _)
RECURSIVE GroupKept(_, _, _, _, _)

(* lines 230-231: the normalised child n is appended unless it is None *)
ChildKept(n, children, d, vendor_default, date_default, file_name, txs) ==
  IF n.ok
  THEN InferredChildren(n.h, Tail(children), d, vendor_default, date_default, file_name,
                        Append(txs, n.v))
  ELSE InferredChildren(n.h, Tail(children), d, vendor_default, date_default, file_name, txs)

(* lines 215-231: the loop over the children of a group *)
InferredChildren(h, children, d, vendor_default, date_default, file_name, txs) ==
  IF Len(children) = 0 THEN [h |-> h, q |-> txs]
  ELSE IF ~IsDict(Head(children))
  THEN InferredChildren(h, Tail(children), d, vendor_default, date_default, file_name, txs)
  ELSE ChildKept(NormalizeMapping(h, InferredChild(h, Head(children), h[Head(children).v], d,
                                                   vendor_default, date_default, file_name)),
                 children, d, vendor_default, date_default, file_name, txs)

(* lines 208-209 and 246-247: the normalised item n is appended unless it  *)
(* is None                                                                 *)
ItemKept(n, items, vendor_default, date_default, file_name, txs) ==
  IF n.ok
  THEN InferredItems(n.h, Tail(items), vendor_default, date_default, file_name, Append(txs, n.v))
  ELSE InferredItems(n.h, Tail(items), vendor_default, date_default, file_name, txs)

(* line 232: continue after the children g of a group *)
GroupKept(g, items, vendor_default, date_default, file_name) ==
  InferredItems(g.h, Tail(items), vendor_default, date_default, file_name, g.q)

(* lines 191-247: one item with contents d *)
InferredItem(h, items, d, vendor_default, date_default, file_name, txs) ==
  IF "amount" \in DOMAIN d /\ ("direction" \in DOMAIN d \/ "type" \in DOMAIN d)
  THEN ItemKept(NormalizeMapping(h, InferredShaped(h, Head(items), d, vendor_default,
                                                   date_default, file_name)),
                items, vendor_default, date_default, file_name, txs)
  ELSE IF IsList(Get(d, "items")) /\ Truthy(h, Get(d, "items"))
  THEN GroupKept(InferredChildren(h, Get(d, "items").v, d, vendor_default, date_default,
                                  file_name, txs),
                 items, vendor_default, date_default, file_name)
  ELSE ItemKept(NormalizeMapping(h, InferredFallback(h, Head(items), d, vendor_default,
                                                     date_default, file_name)),
                items, vendor_default, date_default, file_name, txs)

(* lines 190-247: the loop over inferred_accounts *)
InferredItems(h, items, vendor_default, date_default, file_name, txs) ==
  IF Len(items) = 0 THEN [h |-> h, q |-> txs]
  ELSE IF ~IsDict(Head(items))
  THEN InferredItems(h, Tail(items), vendor_default, date_default, file_name, txs)
  ELSE InferredItem(h, items, h[Head(items).v], vendor_default, date_default, file_name, txs)

(* the list the loop built is returned *)
InferredReturn(r) == [raised |-> FALSE, h |-> r.h, q |-> r.q]

(* extract_transactions_from_inferred_accounts: [raised, h, q].            *)
(* raised: the for over a value that cannot be iterated (TypeError)      *)
extract_transactions_from_inferred_accounts(h, inferred_accounts, ocr_data, file_name) ==
  IF ~Truthy(h, inferred_accounts) THEN [raised |-> FALSE, h |-> h, q |-> << >>]
  ELSE IF ~Iterable(inferred_accounts) THEN [raised |-> TRUE, h |-> h, q |-> << >>]
  ELSE InferredReturn(InferredItems(h, IterOf(h, inferred_accounts),
                                    OcrDefault(h, ocr_data, "vendor"),
                                    OcrDefault(h, ocr_data, "date"), file_name, << >>))

---------------------------------------------------------------------------
(* json: the decoder, on the subset of JSON without escapes or exponents *)

Quote == "\""

(* the first index from i on where P fails: the end of the run that      *)
(* starts at i                                                             *)
RunEnd(s, i, P(_)) ==
  LET stops == {j \in i..Len(s) : ~P(CharAt(s, j))} IN
  IF stops # {} THEN MinOf(stops) ELSE IF i > Len(s) THEN i ELSE Len(s) + 1

IsWhitespace(c) == c \in Whitespace

(* the index after the white space that starts at i *)
SkipWs(s, i) == RunEnd(s, i, IsWhitespace)

(* the index after the run of digits that starts at i *)
DigitsEnd(s, i) == RunEnd(s, i, IsDigit)

JFail(h) == [ok |-> FALSE, h |-> h, v |-> VNone, next |-> 0]

StartsAt(s, i, w) == i + Len(w) - 1 <= Len(s) /\ SubSeq(s, i, i + Len(w) - 1) = w

(* a number literal at i *)
JNumber(h, s, i) ==
  LET neg == StartsAt(s, i, "-")
      a == IF neg THEN i + 1 ELSE i
      b == DigitsEnd(s, a)
      frac == StartsAt(s, b, ".")
      c == IF frac THEN DigitsEnd(s, b + 1) ELSE b
      ip == NatOf(SubSeq(s, a, b - 1))
      fp == FracOf(SubSeq(s, b + 1, c - 1))
      sign == IF neg THEN 0 - 1 ELSE 1
  IN IF b = a \/ (frac /\ c = b + 1) THEN JFail(h)
     ELSE IF frac THEN [ok |-> TRUE, h |-> h, v |-> VFlt(sign * (ip * Unit + fp)), next |-> c]
     ELSE [ok |-> TRUE, h |-> h, v |-> VInt(sign * ip), next |-> b]

Backslash == "\\"

(* the character the escape of c stands for, "" when there is none; the    *)
(* escapes b and u occur in no text of the model                           *)
Unescaped(c) ==
  IF c \in {Quote, Backslash, "/"} THEN c
  ELSE IF c = "n" THEN "\n"
  ELSE IF c = "t" THEN "\t"
  ELSE IF c = "r" THEN "\r"
  ELSE IF c = "f" THEN "\f"
  ELSE ""

RECURSIVE JChars(_, _, _, _)
(* the characters of a string literal from i on, acc read so far; a line   *)
(* break or a tab in the literal is refused (strict mode)                  *)
JChars(h, s, i, acc) ==
  IF i > Len(s) \/ CharAt(s, i) \in {"\n", "\t", "\r", "\f"} THEN JFail(h)
  ELSE IF CharAt(s, i) = Quote
  THEN [ok |-> TRUE, h |-> h, v |-> VStr(acc), next |-> i + 1]
  ELSE IF CharAt(s, i) # Backslash THEN JChars(h, s, i + 1, acc \o CharAt(s, i))
  ELSE IF i = Len(s) \/ Unescaped(CharAt(s, i + 1)) = "" THEN JFail(h)
  ELSE JChars(h, s, i + 2, acc \o Unescaped(CharAt(s, i + 1)))

(* a string literal whose opening quote is at i *)
JString(h, s, i) == JChars(h, s, i + 1, "")

RECURSIVE JValue(_, _, _)
RECURSIVE JMembers(_, _, _, _)
RECURSIVE JElements(_, _, _, _)

(* JSONDecoder.raw_decode at index i: [ok, h, v, next] *)
JValue(h, s, i) ==
  IF i > Len(s) THEN JFail(h)
  ELSE LET c == CharAt(s, i) IN
    IF c = "{" THEN
      LET j == SkipWs(s, i + 1) IN
      IF StartsAt(s, j, "}")
      THEN LET h2 == Alloc(h, << >>) IN [ok |-> TRUE, h |-> h2, v |-> VDict(Len(h2)), next |-> j + 1]
      ELSE JMembers(h, s, j, << >>)
    ELSE IF c = "[" THEN
      LET j == SkipWs(s, i + 1) IN
      IF StartsAt(s, j, "]")
      THEN [ok |-> TRUE, h |-> h, v |-> VList(<< >>), next |-> j + 1]
      ELSE JElements(h, s, j, << >>)
    ELSE IF c = Quote THEN JString(h, s, i)
    ELSE IF StartsAt(s, i, "null") THEN [ok |-> TRUE, h |-> h, v |-> VNone, next |-> i + 4]
    ELSE IF StartsAt(s, i, "true") THEN [ok |-> TRUE, h |-> h, v |-> VBool(TRUE), next |-> i + 4]
    ELSE IF StartsAt(s, i, "false") THEN [ok |-> TRUE, h |-> h, v |-> VBool(FALSE), next |-> i + 5]
    ELSE IF StartsAt(s, i, "NaN") THEN [ok |-> TRUE, h |-> h, v |-> VFlt(NaN), next |-> i + 3]
    ELSE IF c = "-" \/ IsDigit(c) THEN JNumber(h, s, i)
    ELSE JFail(h)

(* the members of an object, from the key at i; a later key overrides *)
JMembers(h, s, i, acc) ==
  IF ~StartsAt(s, i, Quote) THEN JFail(h)
  ELSE LET k == JString(h, s, i) IN
    IF ~k.ok THEN JFail(h)
    ELSE LET c == SkipWs(s, k.next) IN
      IF ~StartsAt(s, c, ":") THEN JFail(h)
      ELSE LET val == JValue(h, s, SkipWs(s, c + 1)) IN
        IF ~val.ok THEN JFail(h)
        ELSE LET e == SkipWs(s, val.next)
                 acc2 == Put(acc, k.v.v, val.v)
             IN IF StartsAt(s, e, "}")
                THEN LET h2 == Alloc(val.h, acc2)
                     IN [ok |-> TRUE, h |-> h2, v |-> VDict(Len(h2)), next |-> e + 1]
                ELSE IF StartsAt(s, e, ",") THEN JMembers(val.h, s, SkipWs(s, e + 1), acc2)
                ELSE JFail(h)

JElements(h, s, i, acc) ==
  LET val == JValue(h, s, i) IN
  IF ~val.ok THEN JFail(h)
  ELSE LET e == SkipWs(s, val.next)
           acc2 == Append(acc, val.v)
       IN IF StartsAt(s, e, "]")
          THEN [ok |-> TRUE, h |-> val.h, v |-> VList(acc2), next |-> e + 1]
          ELSE IF StartsAt(s, e, ",") THEN JElements(val.h, s, SkipWs(s, e + 1), acc2)
          ELSE JFail(h)

(* the value decoded, when nothing but white space follows it *)
Loaded(h, s, r) ==
  IF r.ok /\ SkipWs(s, r.next) = Len(s) + 1 THEN [ok |-> TRUE, h |-> r.h, v |-> r.v]
  ELSE [ok |-> FALSE, h |-> h, v |-> VNone]

(* json.loads(s): [ok, h, v]; ok is FALSE when it raises *)
json_loads(h, s) == Loaded(h, s, JValue(h, s, SkipWs(s, 1)))

---------------------------------------------------------------------------
(* formatting.py *)

(* _to_float: <<x>> or <<>> for None *)
_to_float(value) == IF IsNone(value) THEN << >> ELSE PyFloat(value)

(* lines 31-37: the ratio held between 0 and 1 *)
(* nan < 0.0 and nan > 1.0 are both false: nan is kept                     *)
Clamp01(ratio) ==
  IF IsNaN(ratio) THEN ratio ELSE IF ratio < 0 THEN 0 ELSE IF ratio > Unit THEN Unit ELSE ratio

(* lines 26-37, from the float on *)
RatioOf(num) ==
  IF num = << >> THEN VNone
  ELSE VFlt(Clamp01(IF ~IsNaN(num[1]) /\ num[1] > Unit THEN num[1] \div 100 ELSE num[1]))

(* normalize_confidence_ratio: a float value or None. The division by 100  *)
(* is exact on the multiples of 0.1, the inputs of this model              *)
normalize_confidence_ratio(value) == RatioOf(_to_float(value))

---------------------------------------------------------------------------
(* predictor_claude.py *)

(* a markdown code fence, three backquotes, is written ~~~ *)
FENCE == "~~~"

(* re.sub of a leading fence, an optional "json" in any case, and white space *)
StripFenceOpen(s) ==
  IF ~StartsAt(s, 1, FENCE) THEN s
  ELSE LET a == IF Len(s) >= 7 /\ Lower(SubSeq(s, 4, 7)) = "json" THEN 8 ELSE 4
       IN SubSeq(s, SkipWs(s, a), Len(s))

(* re.sub of a trailing fence and the white space before it *)
StripFenceClose(s) ==
  IF Len(s) >= 3 /\ SubSeq(s, Len(s) - 2, Len(s)) = FENCE
  THEN RStrip(SubSeq(s, 1, Len(s) - 3))
  ELSE s

NotFound == [found |-> FALSE, h |-> << >>, v |-> VNone]

(* the object raw_decode read, when it is a dict *)
ExtractDecoded(r) ==
  IF ~r.ok \/ ~IsDict(r.v) THEN NotFound ELSE [found |-> TRUE, h |-> r.h, v |-> r.v]

(* raw_decode from the first brace of the cleaned text *)
ExtractAt(cleaned, start) ==
  IF start = 0 THEN NotFound ELSE ExtractDecoded(JValue(<< >>, cleaned, start))

ExtractCleaned(cleaned) == ExtractAt(cleaned, Find(cleaned, "{"))

(* _extract_first_json_object: [found, h, v]; v a dict of the heap h *)
_extract_first_json_object(text) ==
  IF text = "" THEN NotFound
  ELSE ExtractCleaned(StripFenceClose(StripFenceOpen(Strip(text))))

(* _ClaudeAccountMatch / _ClaudeVendorMatch: validation of a nested match *)
MatchValid(h, x, key) ==
  \/ IsNone(x)
  \/ /\ IsDict(x)
     /\ OptStrValid(Get(h[x.v], key))
     /\ OptStrValid(Get(h[x.v], "name"))
     /\ OptFloatValid(Get(h[x.v], "confidence"))

ResponseStrFields == {"account", "reasoning", "description", "normalized_description",
                      "matched_account_code", "matched_account_name",
                      "matchedAccountCode", "matchedAccountName",
                      "matched_vendor_id", "matched_vendor_name",
                      "matchedVendorId", "matchedVendorName"}
ResponseFloatFields == {"confidence", "account_confidence", "accountConfidence",
                        "vendor_confidence", "vendorConfidence"}

(* _ClaudeResponse.model_validate(payload): does the payload pass *)
ResponseValid(h, d) ==
  /\ \A k \in ResponseStrFields : OptStrValid(Get(d, k))
  /\ \A k \in ResponseFloatFields : OptFloatValid(Get(d, k))
  /\ MatchValid(h, Get(d, "account_match"), "code")
  /\ MatchValid(h, Get(d, "vendor_match"), "id")

(* an AccountPrediction *)
AccountPrediction(account, confidence, reasoning) ==
  [account |-> account, confidence |-> confidence, reasoning |-> reasoning,
   description |-> VNone,
   matched_account_code |-> VNone, matched_account_name |-> VNone,
   account_confidence |-> VNone,
   matched_vendor_id |-> VNone, matched_vendor_name |-> VNone,
   vendor_confidence |-> VNone,
   raw_response |-> VNone, model |-> VNone, tokens_used |-> VNone]

(* the account the fallback names for a direction *)
FallbackAccount(direction) ==
  IF Lower(IF direction = "" THEN "expense" ELSE direction) = "expense"
  THEN ZAPPI ELSE URIAGEDAKA

(* ClaudePredictor._fallback_prediction *)
_fallback_prediction(direction) ==
  AccountPrediction(VStr(FallbackAccount(direction)), VFlt(0), VStr("fallback"))

(* str(x) if x else None *)
StrOrNone(h, x) == IF Truthy(h, x) THEN VStr(PyStr(x)) ELSE VNone

(* the blank, the digits and the letters in the order of their code       *)
(* points; account names are made of these                                 *)
Printable == " " \o Digits \o Uppers \o Lowers

CodeOf(c) == Find(Printable, c)

RECURSIVE StrGreater(_, _)
(* x > y for two texts *)
StrGreater(x, y) ==
  IF Len(x) = 0 THEN FALSE
  ELSE IF Len(y) = 0 THEN TRUE
  ELSE IF CharAt(x, 1) # CharAt(y, 1) THEN CodeOf(CharAt(x, 1)) > CodeOf(CharAt(y, 1))
  ELSE StrGreater(SubSeq(x, 2, Len(x)), SubSeq(y, 2, Len(y)))

(* difflib: the length of the longest block a[i..] and b[j..] share at     *)
(* their start, within a[..ahi-1] and b[..bhi-1]                           *)
RunFrom(a, b, i, j, ahi, bhi) ==
  MaxOf({k \in 0..(IF ahi - i < bhi - j THEN ahi - i ELSE bhi - j) :
           SubSeq(a, i, i + k - 1) = SubSeq(b, j, j + k - 1)})

(* the first block of length k in a, and of these the first in b *)
FirstOfLength(a, b, alo, ahi, blo, bhi, k) ==
  LET i == MinOf({x \in alo..(ahi - 1) :
                   \E y \in blo..(bhi - 1) : RunFrom(a, b, x, y, ahi, bhi) = k})
      j == MinOf({y \in blo..(bhi - 1) : RunFrom(a, b, i, y, ahi, bhi) = k})
  IN << i, j, k >>

(* SequenceMatcher.find_longest_match without junk: <<i, j, k>>, the        *)
(* longest block of a[alo..ahi-1] and b[blo..bhi-1], the earliest in a and *)
(* then in b                                                               *)
find_longest_match(a, b, alo, ahi, blo, bhi) ==
  FirstOfLength(a, b, alo, ahi, blo, bhi,
                MaxOf({RunFrom(a, b, x, y, ahi, bhi) :
                         x \in alo..(ahi - 1), y \in blo..(bhi - 1)}))

RECURSIVE MatchedAround(_, _, _, _, _, _, _)
RECURSIVE Matched(_, _, _, _, _, _)
(* SequenceMatcher.get_matching_blocks: the block m, and the blocks to its *)
(* left and to its right                                                   *)
MatchedAround(a, b, alo, ahi, blo, bhi, m) ==
  IF m[3] = 0 THEN 0
  ELSE m[3] + Matched(a, b, alo, m[1], blo, m[2])
            + Matched(a, b, m[1] + m[3], ahi, m[2] + m[3], bhi)

(* the number of characters in the matching blocks *)
Matched(a, b, alo, ahi, blo, bhi) ==
  IF alo >= ahi \/ blo >= bhi THEN 0
  ELSE MatchedAround(a, b, alo, ahi, blo, bhi, find_longest_match(a, b, alo, ahi, blo, bhi))

(* SequenceMatcher(a=x, b=word).ratio() as the fraction <<2 M, T>> *)
Ratio(x, word) == << 2 * Matched(x, word, 1, Len(x) + 1, 1, Len(word) + 1), Len(x) + Len(word) >>

(* ratio() >= 0.6 *)
ClearsLowerCutoff(r) == r[2] = 0 \/ 10 * r[1] >= 6 * r[2]

(* ratio() >= cutoff, 0.7 *)
ClearsCutoff(r) == r[2] = 0 \/ 10 * r[1] >= 7 * r[2]

(* (ratio, x) > (ratio, y) *)
ScoredAbove(rx, x, ry, y) ==
  \/ rx[1] * ry[2] > ry[1] * rx[2]
  \/ rx[1] * ry[2] = ry[1] * rx[2] /\ StrGreater(x, y)

(* heapq.nlargest(1, result): the best of the scored names, or none *)
Largest(scored) ==
  IF scored = {} THEN << >>
  ELSE << (CHOOSE c \in scored : \A d \in scored : ~ScoredAbove(d.r, d.x, c.r, c.x)).x >>

(* difflib.get_close_matches(word, names, n=1, cutoff=0.7) *)
get_close_matches(word, names) ==
  Largest({c \in {[x |-> names[i], r |-> Ratio(names[i], word)] : i \in 1..Len(names)} :
             ClearsCutoff(c.r)})

RECURSIVE CollapseWs(_)
(* re.sub(r"\s+", " ", s) *)
CollapseWs(s) ==
  IF Len(s) = 0 THEN ""
  ELSE IF ~IsWhitespace(CharAt(s, 1)) THEN CharAt(s, 1) \o CollapseWs(SubSeq(s, 2, Len(s)))
  ELSE " " \o CollapseWs(SubSeq(s, RunEnd(s, 1, IsWhitespace), Len(s)))

(* lines 417: the names of the catalog *)
NamesOf(account_masters) ==
  [i \in 1..Len(account_masters) |->
     PyStr(Or_(<< >>, Get(account_masters[i], "name"), VStr("")))]

(* lines 427-432: the closest name to the collapsed account, else the      *)
(* account                                                                 *)
CleanedClose(best2, account) == IF best2 # << >> THEN best2[1] ELSE account

(* lines 422-425: the closest name to the account *)
FuzzyClose(best, account, names) ==
  IF best # << >> THEN best[1]
  ELSE CleanedClose(get_close_matches(CollapseWs(account), names), account)

(* lines 414-420: the account stripped; the default when it is empty, the  *)
(* account when it is a name of the catalog                                *)
StrippedAccount(a, names, direction) ==
  IF a = "" THEN FallbackAccount(direction)
  ELSE IF \E i \in 1..Len(names) : names[i] = a THEN a
  ELSE FuzzyClose(get_close_matches(a, names), a, names)

(* ClaudePredictor._normalize_account_name *)
_normalize_account_name(account, account_masters, direction) ==
  StrippedAccount(Strip(account), NamesOf(account_masters), direction)

(* a validated _ClaudeAccountMatch or _ClaudeVendorMatch, or None *)
ParsedMatch(h, x, key) ==
  IF IsNone(x) THEN VNone
  ELSE [t |-> "match", id |-> Get(h[x.v], key), name |-> Get(h[x.v], "name"),
        confidence |-> OptFloatOf(Get(h[x.v], "confidence"))]

(* parsed: the validated _ClaudeResponse *)
Parsed(h, d) ==
  [k \in ResponseStrFields \cup ResponseFloatFields \cup {"account_match", "vendor_match"} |->
     CASE k \in ResponseStrFields -> Get(d, k)
       [] k \in ResponseFloatFields -> OptFloatOf(Get(d, k))
       [] k = "account_match" -> ParsedMatch(h, Get(d, k), "code")
       [] OTHER -> ParsedMatch(h, Get(d, k), "id")]

(* the field f of a nested match, None when the match is absent *)
MatchField(m, f) == IF IsNone(m) THEN VNone ELSE m[f]

(* x, or the normalised value when x is None *)
OrRatio(x, value) == IF IsNone(x) THEN normalize_confidence_ratio(value) ELSE x

(* lines 235-237 *)
OrHalf(x) == IF IsNone(x) THEN VFlt(Unit \div 2) ELSE x
ParsedConfidence(c) == OrHalf(IF ~IsNone(c) THEN normalize_confidence_ratio(c) ELSE VNone)

(* a reconciliation that reads the flat name fields only *)
MatchedAccountNameFlatOnly(h, parsed) ==
  Or_(h, parsed.matched_account_name, parsed.matchedAccountName)

(* lines 245-253 *)
MatchedAccountName(h, parsed) ==
  Or_(h, MatchField(parsed.account_match, "name"),
      Or_(h, parsed.matched_account_name, parsed.matchedAccountName))

MatchedAccountCode(h, parsed) ==
  Or_(h, MatchField(parsed.account_match, "id"),
      Or_(h, parsed.matched_account_code, parsed.matchedAccountCode))

(* lines 248, 255-258 *)
AccountConfidence(parsed) ==
  OrRatio(OrRatio(IF IsNone(parsed.account_match) THEN VNone
                  ELSE normalize_confidence_ratio(parsed.account_match.confidence),
                  parsed.account_confidence),
          parsed.accountConfidence)

(* lines 269-278 *)
MatchedVendorId(h, parsed) ==
  IF ~IsNone(parsed.vendor_match) THEN parsed.vendor_match.id
  ELSE Or_(h, parsed.matched_vendor_id, parsed.matchedVendorId)

MatchedVendorName(h, parsed) ==
  IF ~IsNone(parsed.vendor_match) THEN parsed.vendor_match.name
  ELSE Or_(h, parsed.matched_vendor_name, parsed.matchedVendorName)

VendorConfidence(parsed) ==
  IF ~IsNone(parsed.vendor_match)
  THEN normalize_confidence_ratio(parsed.vendor_match.confidence)
  ELSE OrRatio(normalize_confidence_ratio(parsed.vendor_confidence), parsed.vendorConfidence)

(* lines 234, 260-261, 281-282: the account named *)
AccountNamed(h, parsed, matched_account_name, account_masters, direction) ==
  IF Len(account_masters) > 0
  THEN _normalize_account_name(IF Truthy(h, matched_account_name) THEN PyStr(matched_account_name)
                               ELSE PyStr(Or_(h, parsed.account, VStr(""))),
                               account_masters, direction)
  ELSE IF Truthy(h, matched_account_name) THEN PyStr(matched_account_name)
  ELSE PyStr(Or_(h, parsed.account, VStr("")))

(* description=str(description) if description is not None and ... *)
DescriptionOrNone(description) ==
  IF ~IsNone(description) /\ Strip(PyStr(description)) # "" THEN VStr(PyStr(description))
  ELSE VNone

(* lines 284-298: the AccountPrediction returned *)
Predicted(h, parsed, matched_account_name, account_confidence, direction, account_masters, raw_response, used_model, tokens_used) ==
  [account |-> VStr(AccountNamed(h, parsed, matched_account_name, account_masters, direction)),
   confidence |-> IF Truthy(h, matched_account_name) /\ ~IsNone(account_confidence)
                  THEN account_confidence ELSE ParsedConfidence(parsed.confidence),
   reasoning |-> VStr(PyStr(Or_(h, parsed.reasoning, VStr("")))),
   description |-> DescriptionOrNone(Or_(h, Or_(h, parsed.description,
                                                parsed.normalized_description), VNone)),
   matched_account_code |-> StrOrNone(h, MatchedAccountCode(h, parsed)),
   matched_account_name |-> StrOrNone(h, matched_account_name),
   account_confidence |-> account_confidence,
   matched_vendor_id |-> StrOrNone(h, MatchedVendorId(h, parsed)),
   matched_vendor_name |-> StrOrNone(h, MatchedVendorName(h, parsed)),
   vendor_confidence |-> VendorConfidence(parsed),
   raw_response |-> VStr(raw_response),
   model |-> VStr(used_model),
   tokens_used |-> tokens_used]

(* lines 234-298 of predict, from the validated response on *)
FromParsed(h, parsed, direction, account_masters, raw_response, used_model, tokens_used) ==
  Predicted(h, parsed, MatchedAccountName(h, parsed), AccountConfidence(parsed), direction,
            account_masters, raw_response, used_model, tokens_used)

(* lines 234-298 of predict: the prediction read from a validated payload *)
Reconcile(h, d, direction, account_masters, raw_response, used_model, tokens_used) ==
  FromParsed(h, Parsed(h, d), direction, account_masters, raw_response, used_model, tokens_used)

(* a fallback that leaves the audit fields empty *)
FallbackUnaudited(direction, raw_response, used_model, tokens_used) ==
  _fallback_prediction(direction)

(* the fallback of predict, lines 216-232 *)
Fallback(direction, raw_response, used_model, tokens_used) ==
  [_fallback_prediction(direction) EXCEPT
     !.raw_response = VStr(raw_response), !.model = VStr(used_model),
     !.tokens_used = tokens_used]

(* lines 214-232: the payload read from the content *)
FromPayload(payload, content, direction, account_masters, used_model, tokens_used) ==
  IF ~payload.found THEN Fallback(direction, content, used_model, tokens_used)
  ELSE IF ~ResponseValid(payload.h, payload.h[payload.v.v])
  THEN Fallback(direction, content, used_model, tokens_used)
  ELSE Reconcile(payload.h, payload.h[payload.v.v], direction, account_masters,
                 content, used_model, tokens_used)

FromContent(content, direction, account_masters, used_model, tokens_used) ==
  FromPayload(_extract_first_json_object(content), content, direction, account_masters,
              used_model, tokens_used)

(* ClaudePredictor.predict from the reply on: text is the concatenated   *)
(* text of the blocks of the reply                                         *)
predict(text, direction, account_masters, used_model, tokens_used) ==
  FromContent(Strip(text), direction, account_masters, used_model, tokens_used)

---------------------------------------------------------------------------
(* pipeline.py: classify_transactions_with_claude, the body of the loop *)

(* d[k] = v when c holds *)
PutIf(c, d, k, v) == IF c THEN Put(d, k, v) ELSE d

(* lines 102-108 *)
SharedText(h, pred) ==
  IF Truthy(h, pred.reasoning) THEN pred.reasoning
  ELSE IF Truthy(h, pred.description) THEN pred.description
  ELSE VNone

(* lines 98-130, the shared text given *)
WriteShared(h, tx, pred, shared_text) ==
  PutIf(~IsNone(pred.tokens_used),
   PutIf(~IsNone(pred.model),
    PutIf(~IsNone(pred.raw_response),
     PutIf(Truthy(h, pred.matched_vendor_id),
      PutIf(Truthy(h, pred.matched_vendor_id),
       PutIf(Truthy(h, pred.matched_vendor_id),
        PutIf(~IsNone(pred.account_confidence),
         PutIf(Truthy(h, pred.matched_account_name),
          PutIf(Truthy(h, pred.matched_account_code),
           PutIf(~IsNone(shared_text),
            PutIf(~IsNone(shared_text),
             Put(Put(tx, "accountName", pred.account), "confidence", pred.confidence),
             "reasoning", shared_text),
            "claude_description", shared_text),
           "matched_account_code", pred.matched_account_code),
          "matched_account_name", pred.matched_account_name),
         "account_confidence", pred.account_confidence),
        "matched_vendor_id", pred.matched_vendor_id),
       "matched_vendor_name", pred.matched_vendor_name),
      "vendor_confidence", pred.vendor_confidence),
     "claude_raw_response", pred.raw_response),
    "claude_model", pred.model),
   "claude_tokens_used", pred.tokens_used)

(* lines 98-130: the fields a prediction writes on the transaction *)
WriteTransaction(h, tx, pred) == WriteShared(h, tx, pred, SharedText(h, pred))

(* lines 134-142: the fields a prediction writes on the dict _ref names *)
WriteRef(h, ref, pred) ==
  PutIf(Truthy(h, pred.matched_vendor_id),
   PutIf(Truthy(h, pred.matched_vendor_id),
    PutIf(Truthy(h, pred.matched_vendor_id),
     PutIf(Truthy(h, pred.description),
      Put(Put(Put(ref, "accountItem", pred.account), "confidence", pred.confidence),
          "reasoning", pred.reasoning),
      "claudeDescription", pred.description),
     "matchedVendorId", pred.matched_vendor_id),
    "matchedVendorName", pred.matched_vendor_name),
   "vendorConfidence", pred.vendor_confidence)

(* lines 132-142: the dict _ref names is written when it is a dict *)
MergeRef(h1, ref, pred) ==
  IF IsDict(ref) THEN [h1 EXCEPT ![ref.v] = WriteRef(h1, h1[ref.v], pred)] ELSE h1

MergeWritten(h1, a, pred) == MergeRef(h1, Get(h1[a], "_ref"), pred)

(* lines 98-142: the heap after the prediction for the transaction at a is merged *)
MergePrediction(h, a, pred) ==
  MergeWritten([h EXCEPT ![a] = WriteTransaction(h, h[a], pred)], a, pred)

---------------------------------------------------------------------------
(* formatting.py: the memo text *)

(* lines 47-51: the text of a ratio given in tenths of a percent *)
PercentText(tenths) ==
  IF tenths % 10 = 0 THEN VStr(ToString(tenths \div 10) \o "%")
  ELSE VStr(ToString(tenths \div 10) \o "." \o ToString(tenths % 10) \o "%")

PercentOf(ratio) == IF IsNone(ratio) THEN VNone ELSE PercentText((ratio.v * 1000) \div Unit)

(* format_confidence_percent: a text or None. The ratio r/Unit is a whole  *)
(* percent exactly when r is a multiple of Unit/100                        *)
format_confidence_percent(value) == PercentOf(normalize_confidence_ratio(value))

(* lines 66-70 *)
MemoReason(stripped) == IF stripped # "" THEN VStr(stripped) ELSE VNone

(* lines 72-79: the parts, of which there are at most two *)
ConfPart(label, percent) ==
  IF ~IsNone(percent) /\ percent.v # "" THEN << label \o percent.v >> ELSE << >>

ConfDisplay(parts) ==
  IF Len(parts) = 2 THEN parts[1] \o ", " \o parts[2]
  ELSE IF Len(parts) = 1 THEN parts[1] ELSE ""

(* lines 81-90 *)
MemoOf(memo_reason, parts) ==
  IF IsNone(memo_reason) /\ Len(parts) = 0 THEN VNone
  ELSE IF Len(parts) > 0
       THEN IF ~IsNone(memo_reason)
            THEN VStr(memo_reason.v \o " (conf: " \o ConfDisplay(parts) \o ")")
            ELSE VStr("conf: " \o ConfDisplay(parts))
  ELSE memo_reason

(* build_journal_memo: a text or None *)
build_journal_memo(reason, account_confidence, vendor_confidence) ==
  MemoOf(IF IsStr(reason) THEN MemoReason(Strip(reason.v)) ELSE VNone,
         ConfPart("acc=", format_confidence_percent(account_confidence))
           \o ConfPart("vendor=", format_confidence_percent(vendor_confidence)))

---------------------------------------------------------------------------
(* mf_export_service.py *)

COL_NO == "<53d6><5f15>No"
COL_DATE == "<53d6><5f15><65e5>"
COL_DR_ACCOUNT == "<501f><65b9><52d8><5b9a><79d1><76ee>"
COL_DR_SUB == "<501f><65b9><88dc><52a9><79d1><76ee>"
COL_DR_DEPT == "<501f><65b9><90e8><9580>"
COL_DR_VENDOR == "<501f><65b9><53d6><5f15><5148>"
COL_DR_TAX == "<501f><65b9><7a0e><533a><5206>"
COL_DR_INVOICE == "<501f><65b9><30a4><30f3><30dc><30a4><30b9>"
COL_DR_AMOUNT == "<501f><65b9><91d1><984d>(<5186>)"
COL_DR_TAXAMT == "<501f><65b9><7a0e><984d>"
COL_CR_ACCOUNT == "<8cb8><65b9><52d8><5b9a><79d1><76ee>"
COL_CR_SUB == "<8cb8><65b9><88dc><52a9><79d1><76ee>"
COL_CR_DEPT == "<8cb8><65b9><90e8><9580>"
COL_CR_VENDOR == "<8cb8><65b9><53d6><5f15><5148>"
COL_CR_TAX == "<8cb8><65b9><7a0e><533a><5206>"
COL_CR_INVOICE == "<8cb8><65b9><30a4><30f3><30dc><30a4><30b9>"
COL_CR_AMOUNT == "<8cb8><65b9><91d1><984d>(<5186>)"
COL_CR_TAXAMT == "<8cb8><65b9><7a0e><984d>"
COL_SUMMARY == "<6458><8981>"
COL_MEMO == "<4ed5><8a33><30e1><30e2>"
COL_TAG == "<30bf><30b0>"
COL_TYPE == "MF<4ed5><8a33><30bf><30a4><30d7>"
COL_CLOSING == "<6c7a><7b97><6574><7406><4ed5><8a33>"

(* MfExportService.MF_COLUMNS *)
MF_COLUMNS ==
  << COL_NO, COL_DATE, COL_DR_ACCOUNT, COL_DR_SUB,
     COL_DR_DEPT, COL_DR_VENDOR, COL_DR_TAX, COL_DR_INVOICE,
     COL_DR_AMOUNT, COL_DR_TAXAMT, COL_CR_ACCOUNT, COL_CR_SUB,
     COL_CR_DEPT, COL_CR_VENDOR, COL_CR_TAX, COL_CR_INVOICE,
     COL_CR_AMOUNT, COL_CR_TAXAMT, COL_SUMMARY, COL_MEMO,
     COL_TAG, COL_TYPE, COL_CLOSING >>

(* dict.get(k, default) *)
GetOr(d, k, default) == IF k \in DOMAIN d THEN d[k] ELSE default

(* s.replace(a, b) for one-character a *)
RECURSIVE Replace(_, _, _)
Replace(s, a, b) ==
  IF Len(s) = 0 THEN ""
  ELSE IF Len(s) = 1 THEN (IF s = a THEN b ELSE s)
  ELSE LET m == Len(s) \div 2
       IN Replace(SubSeq(s, 1, m), a, b) \o Replace(SubSeq(s, m + 1, Len(s)), a, b)

(* the text the csv writer puts in a cell: nothing for None, else str(x) *)
Cell(x) == IF IsNone(x) THEN "" ELSE PyStr(x)

(* lines 98-103: [ok, v]; replace exists on text only *)
ExportDate(h, date_str) ==
  IF date_str.t = "datetime" THEN [ok |-> TRUE, v |-> VStr(PyStr(date_str))]
  ELSE IF Truthy(h, date_str)
       THEN IF IsStr(date_str) THEN [ok |-> TRUE, v |-> VStr(Replace(date_str.v, "-", "/"))]
            ELSE [ok |-> FALSE, v |-> VNone]
  ELSE [ok |-> TRUE, v |-> date_str]

(* lines 109-112: the account, or the default account of the direction *)
ExportAccount(h, account0, direction) ==
  IF ~Truthy(h, account0)
  THEN VStr(IF direction = VStr("expense") THEN ZAPPI ELSE URIAGEDAKA)
  ELSE account0

(* sub_account_item or "" in a cell *)
SubCell(h, sub_account_item) ==
  IF Truthy(h, sub_account_item) THEN PyStr(sub_account_item) ELSE ""

(* memo or "" *)
MemoText(memo) == IF ~IsNone(memo) /\ memo.v # "" THEN memo.v ELSE ""

(* lines 126-132: the summary cell *)
FullDescription(h, description, file_name) ==
  IF Truthy(h, file_name) /\ Truthy(h, description)
  THEN PyStr(description) \o " (" \o PyStr(file_name) \o ")"
  ELSE IF Truthy(h, file_name) THEN Cell(file_name)
  ELSE Cell(description)

(* the cells that do not depend on the direction *)
CommonCells(transaction_no, date_cell, amount, full_description, memo_text) ==
  [c \in {COL_NO, COL_DATE, COL_DR_AMOUNT, COL_DR_TAXAMT, COL_CR_AMOUNT,
          COL_CR_TAXAMT, COL_SUMMARY, COL_MEMO, COL_TAG, COL_TYPE,
          COL_CLOSING, COL_DR_DEPT, COL_CR_DEPT} |->
     CASE c = COL_NO -> ToString(transaction_no)
       [] c = COL_DATE -> date_cell
       [] c \in {COL_DR_AMOUNT, COL_CR_AMOUNT} -> ToString(amount)
       [] c \in {COL_DR_TAXAMT, COL_CR_TAXAMT} -> "0"
       [] c = COL_SUMMARY -> full_description
       [] c = COL_MEMO -> memo_text
       [] c = COL_TAG -> TAG_AI
       [] c = COL_TYPE -> IMPORT_JA
       [] OTHER -> ""]

(* lines 135-161: an expense debits the account and credits the deposit *)
ExpenseCells(account_cell, sub_cell, vendor_cell) ==
  (COL_DR_ACCOUNT :> account_cell) @@ (COL_DR_SUB :> sub_cell)
  @@ (COL_DR_VENDOR :> vendor_cell) @@ (COL_DR_TAX :> KAZEI_SHIIRE_10)
  @@ (COL_DR_INVOICE :> TEKIKAKU)
  @@ (COL_CR_ACCOUNT :> FUTSU_YOKIN) @@ (COL_CR_SUB :> "")
  @@ (COL_CR_VENDOR :> "") @@ (COL_CR_TAX :> TAISHOGAI)
  @@ (COL_CR_INVOICE :> "")

(* an income encoded like an expense *)
IncomeCellsNotInverted(account_cell, sub_cell, vendor_cell) ==
  ExpenseCells(account_cell, sub_cell, vendor_cell)

(* lines 162-188: an income debits the deposit and credits the account *)
IncomeCells(account_cell, sub_cell, vendor_cell) ==
  (COL_DR_ACCOUNT :> FUTSU_YOKIN) @@ (COL_DR_SUB :> "")
  @@ (COL_DR_VENDOR :> "") @@ (COL_DR_TAX :> TAISHOGAI)
  @@ (COL_DR_INVOICE :> "")
  @@ (COL_CR_ACCOUNT :> account_cell) @@ (COL_CR_SUB :> sub_cell)
  @@ (COL_CR_VENDOR :> vendor_cell) @@ (COL_CR_TAX :> KAZEI_URIAGE_10)
  @@ (COL_CR_INVOICE :> TEKIKAKU)

(* the memo of the row, lines 120-124 *)
ExportMemo(h, transaction) ==
  build_journal_memo(
    Or_(h, Or_(h, Get(transaction, "reasoning"), Get(transaction, "claude_description")),
        VStr("")),
    IF ~IsNone(Get(transaction, "account_confidence"))
    THEN Get(transaction, "account_confidence") ELSE Get(transaction, "confidence"),
    Get(transaction, "vendor_confidence"))

(* the row, the date cell and the amount given *)
MfRow(h, transaction, transaction_no, date_cell, amount, direction) ==
  CommonCells(transaction_no, date_cell, amount,
              FullDescription(h, GetOr(transaction, "description", VStr("")),
                              GetOr(transaction, "fileName", VStr(""))),
              MemoText(ExportMemo(h, transaction)))
  @@ (IF direction = VStr("expense")
      THEN ExpenseCells(Cell(ExportAccount(h, GetOr(transaction, "accountName", VStr("")),
                                           direction)),
                        SubCell(h, Or_(h, Or_(h, GetOr(transaction, "subAccountItem", VStr("")),
                                              GetOr(transaction, "sub_account_item", VStr(""))),
                                       VStr(""))),
                        Cell(GetOr(transaction, "vendor", VStr(""))))
      ELSE IncomeCells(Cell(ExportAccount(h, GetOr(transaction, "accountName", VStr("")),
                                          direction)),
                       SubCell(h, Or_(h, Or_(h, GetOr(transaction, "subAccountItem", VStr("")),
                                             GetOr(transaction, "sub_account_item", VStr(""))),
                                      VStr(""))),
                       Cell(GetOr(transaction, "vendor", VStr("")))))

(* the row when neither the date nor the amount raises *)
ConvertChecked(h, transaction, transaction_no, date, amt) ==
  IF ~date.ok \/ amt = << >> THEN [ok |-> FALSE, row |-> << >>]
  ELSE [ok |-> TRUE,
        row |-> MfRow(h, transaction, transaction_no, Cell(date.v), Abs(amt[1]) \div Unit,
                      GetOr(transaction, "direction", VStr("expense")))]

(* MfExportService._convert_to_mf_format: [ok, row]; ok is FALSE when the  *)
(* date or the amount raises, else row maps each column to its cell text   *)
_convert_to_mf_format(h, transaction, transaction_no) ==
  ConvertChecked(h, transaction, transaction_no,
                 ExportDate(h, GetOr(transaction, "date", VStr(""))),
                 PyFloat(GetOr(transaction, "amount", VInt(0))))

(* the record the DictWriter writes for a row: its cells in column order *)
WriteRow(row) == [i \in 1..Len(MF_COLUMNS) |-> row[MF_COLUMNS[i]]]

RECURSIVE CsvRows(_, _, _, _)
RECURSIVE CsvWritten(_, _, _, _, _)

(* writer.writerow(mf_row), unless the conversion raised *)
CsvWritten(r, h, txs, idx0, out) ==
  IF ~r.ok THEN [ok |-> FALSE, rows |-> << >>]
  ELSE CsvRows(h, txs, idx0 + 1, Append(out, WriteRow(r.row)))

(* lines 78-80: the loop over the transactions, numbered from 1 *)
CsvRows(h, txs, idx0, out) ==
  IF idx0 > Len(txs) THEN [ok |-> TRUE, rows |-> out]
  ELSE CsvWritten(_convert_to_mf_format(h, txs[idx0], idx0), h, txs, idx0, out)

(* a header written only when there is a transaction *)
generate_csv_no_header(h, txs) ==
  IF Len(txs) = 0 THEN [ok |-> TRUE, rows |-> << >>] ELSE CsvRows(h, txs, 1, << MF_COLUMNS >>)

(* MfExportService.generate_csv over the contents of the txs:     *)
(* [ok, rows]; the text is held as its records, the header first, each a   *)
(* sequence of cells; ok is FALSE when a row raises                        *)
generate_csv(h, txs) == CsvRows(h, txs, 1, << MF_COLUMNS >>)

---------------------------------------------------------------------------
(* flexible_ocr_loader.py: extract_transactions_from_pending_journal_data *)

HENO == "<3078><306e>"
KARA == "<304b><3089>"
NITAISURU == "<306b><5bfe><3059><308b>"

(* re.search of ^(.+?)pat: <<group 1>> or <<>>; the group is the shortest   *)
(* non-empty prefix before pat, and has no line break in it                *)
SearchPrefix(text, pat) ==
  LET at == FindFrom(text, pat, 2) IN
  IF at > 0 /\ ~Contains(SubSeq(text, 1, at - 1), "\n")
  THEN << SubSeq(text, 1, at - 1) >> ELSE << >>

(* the first of the three searches that matches, its group stripped; kara *)
(* tried before heno                                                       *)
FirstPrefixKaraFirst(a, b, c) ==
  IF b # << >> THEN Strip(b[1])
  ELSE IF a # << >> THEN Strip(a[1])
  ELSE IF c # << >> THEN Strip(c[1])
  ELSE ""

(* the first of the three searches that matches, its group stripped *)
FirstPrefix(a, b, c) ==
  IF a # << >> THEN Strip(a[1])
  ELSE IF b # << >> THEN Strip(b[1])
  ELSE IF c # << >> THEN Strip(c[1])
  ELSE ""

InferFromText(text) ==
  IF text = "" THEN ""
  ELSE FirstPrefix(SearchPrefix(text, HENO), SearchPrefix(text, KARA),
                   SearchPrefix(text, NITAISURU))

(* _infer_vendor_from_summary *)
_infer_vendor_from_summary(summary) == InferFromText(Strip(summary))

(* income for a negative amount, expense otherwise or when float() raises *)
SignDirection(f) == IF f # << >> /\ f[1] < 0 THEN VStr("income") ELSE VStr("expense")

(* lines 109-114 and 140-144: the direction when none is given *)
DirectionOf(h, direction, amount) ==
  IF Truthy(h, direction) THEN direction
  ELSE SignDirection(PyFloat(Or_(h, amount, VInt(0))))

(* lines 86-91: accounting, decoded when it is a text, None when that fails *)
AccountingOf(h, acc0) ==
  IF IsStr(acc0) THEN json_loads(h, acc0.v) ELSE [ok |-> TRUE, h |-> h, v |-> acc0]

HeadRead(h, d, summary, parsed) ==
  [total_amount |-> Get(d, "totalAmount"),
   invoice_date |-> Or_(h, Get(d, "invoiceDate"), Get(d, "date")),
   currency |-> Get(d, "currency"),
   project_id |-> Get(d, "projectId"),
   summary |-> summary,
   file_name |-> Or_(h, Or_(h, Get(d, "filename"), Get(d, "fileName")), VStr("")),
   vendor |-> Or_(h, Get(d, "vendor"), VStr(_infer_vendor_from_summary(PyStr(summary)))),
   h |-> parsed.h,
   accounting |-> IF parsed.ok THEN parsed.v ELSE VNone]

(* lines 77-91: what the loop reads from an item before it branches *)
PendingHead(h, d) ==
  HeadRead(h, d, Or_(h, Or_(h, Get(d, "summary"), Get(d, "description")), VStr("")),
           AccountingOf(h, Get(d, "accounting")))

(* lines 98-133: the mapping built for one accounting entry *)
PendingEntry(h, acc, a, d, hd) ==
  LET amount == IF IsNone(Get(a, "amount")) THEN hd.total_amount ELSE Get(a, "amount")
  IN [date |-> Or_(h, Or_(h, Get(a, "date"), hd.invoice_date), VStr("")),
      vendor |-> Or_(h, hd.vendor, VStr("")),
      description |-> Or_(h, Or_(h, Get(a, "description"), hd.summary), VStr("")),
      amount |-> Or_(h, amount, VInt(0)),
      direction |-> DirectionOf(h, Or_(h, Get(a, "direction"), Get(d, "direction")), amount),
      accountName |-> Or_(h, Or_(h, Get(a, "accountItem"), Get(a, "accountName")), VStr("")),
      subAccountItem |-> Get(a, "subAccountItem"),
      confidence |-> Get(a, "confidence"),
      reasoning |-> Get(a, "reasoning"),
      is_anomaly |-> Get(a, "is_anomaly"),
      currency |-> hd.currency,
      projectId |-> hd.project_id,
      fileName |-> hd.file_name,
      _ref |-> acc]

(* lines 139-159: the mapping built for an item without accounting entries *)
PendingSingle(h, item, d, hd) ==
  [date |-> Or_(h, hd.invoice_date, VStr("")),
   vendor |-> Or_(h, hd.vendor, VStr("")),
   description |-> Or_(h, hd.summary, VStr("")),
   amount |-> Or_(h, hd.total_amount, VInt(0)),
   direction |-> DirectionOf(h, Get(d, "direction"), hd.total_amount),
   accountName |-> VStr(""),
   currency |-> hd.currency,
   projectId |-> hd.project_id,
   fileName |-> hd.file_name,
   _ref |-> item]

RECURSIVE PendingEntries(_, _, _, _, _)
RECURSIVE EntryKept(_, _, _, _, _)
RECURSIVE PendingItems(_, _, _)
RECURSIVE SingleKept(_, _, _)
RECURSIVE EntriesKept(_, _)

(* lines 134-135: the normalised entry n is appended unless it is None *)
EntryKept(n, accounting, d, hd, txs) ==
  IF n.ok THEN PendingEntries(n.h, Tail(accounting), d, hd, Append(txs, n.v))
  ELSE PendingEntries(n.h, Tail(accounting), d, hd, txs)

(* lines 94-135: the loop over the accounting entries of an item *)
PendingEntries(h, accounting, d, hd, txs) ==
  IF Len(accounting) = 0 THEN [h |-> h, q |-> txs]
  ELSE IF ~IsDict(Head(accounting)) THEN PendingEntries(h, Tail(accounting), d, hd, txs)
  ELSE EntryKept(NormalizeMapping(h, PendingEntry(h, Head(accounting),
                                                  h[Head(accounting).v], d, hd)),
                 accounting, d, hd, txs)

(* lines 160-161: the normalised item n is appended unless it is None *)
SingleKept(n, items, txs) ==
  IF n.ok THEN PendingItems(n.h, Tail(items), Append(txs, n.v))
  ELSE PendingItems(n.h, Tail(items), txs)

(* line 136: continue after the entries g of an item *)
EntriesKept(g, items) == PendingItems(g.h, Tail(items), g.q)

(* lines 93-161: one item with contents d, its head hd read *)
PendingItem(items, d, hd, txs) ==
  IF IsList(hd.accounting) /\ Truthy(hd.h, hd.accounting)
  THEN EntriesKept(PendingEntries(hd.h, hd.accounting.v, d, hd, txs), items)
  ELSE SingleKept(NormalizeMapping(hd.h, PendingSingle(hd.h, Head(items), d, hd)), items, txs)

(* lines 72-163: the loop over the items *)
PendingItems(h, items, txs) ==
  IF Len(items) = 0 THEN [h |-> h, q |-> txs]
  ELSE IF ~IsDict(Head(items)) THEN PendingItems(h, Tail(items), txs)
  ELSE PendingItem(items, h[Head(items).v], PendingHead(h, h[Head(items).v]), txs)

(* lines 65-70: the items of a decoded payload *)
PendingDecoded(h, x) ==
  IF IsList(x) THEN PendingItems(h, x.v, << >>)
  ELSE IF IsDict(x) THEN PendingItems(h, << x >>, << >>)
  ELSE [h |-> h, q |-> << >>]

(* lines 59-63: the text decoded, nothing when json.loads raises *)
PendingLoaded(h, r) == IF r.ok THEN PendingDecoded(r.h, r.v) ELSE [h |-> h, q |-> << >>]

RECURSIVE extract_transactions_from_pending_journal_data(_, _)
(* extract_transactions_from_pending_journal_data: [h, q] *)
extract_transactions_from_pending_journal_data(h, pending_journal_data) ==
  IF IsNone(pending_journal_data) THEN [h |-> h, q |-> << >>]
  ELSE IF IsDict(pending_journal_data)
          /\ "pending_journal_data" \in DOMAIN h[pending_journal_data.v]
  THEN extract_transactions_from_pending_journal_data(
         h, h[pending_journal_data.v]["pending_journal_data"])
  ELSE IF IsStr(pending_journal_data)
  THEN PendingLoaded(h, json_loads(h, pending_journal_data.v))
  ELSE PendingDecoded(h, pending_journal_data)

---------------------------------------------------------------------------
(* db_service.py and the arguments pipeline.py hands to it *)

(* the parts of s between the occurrences of the one-character sep *)
RECURSIVE Split(_, _)
Split(s, sep) ==
  LET at == Find(s, sep) IN
  IF at = 0 THEN << s >> ELSE << SubSeq(s, 1, at - 1) >> \o Split(SubSeq(s, at + 1, Len(s)), sep)

(* the three parts are a year, a month and a day *)
YmdParts(q) ==
  /\ Len(q) = 3
  /\ \A i \in 1..3 : q[i] # "" /\ AllDigits(q[i])
  /\ Len(q[1]) = 4 /\ Len(q[2]) <= 2 /\ Len(q[3]) <= 2
  /\ NatOf(q[2]) \in 1..12 /\ NatOf(q[3]) \in 1..31

(* datetime.strptime(s, "%Y-%m-%d") succeeds *)
IsYmd(s) == YmdParts(Split(s, "-"))

(* lines 48-57: the normalised text parsed, None when strptime raises *)
ParsedYmd(normalized) ==
  IF normalized # "" /\ IsYmd(normalized) THEN [t |-> "datetime", v |-> normalized]
  ELSE VNone

(* _parse_date: a datetime or None *)
_parse_date(value) ==
  IF value.t = "datetime" THEN value
  ELSE IF ~IsStr(value) THEN VNone
  ELSE ParsedYmd(Replace(Strip(value.v), "/", "-"))

(* _utcnow() *)
_utcnow == [t |-> "datetime", v |-> "now"]

(* x.lower(): <<text>>, <<>> when x has no such method *)
LowerOf(x) == IF IsStr(x) THEN << Lower(x.v) >> ELSE << >>

(* (tx.get("direction") or "expense").lower(): <<text>>, <<>> when it raises *)
LowerDirection(h, tx) == LowerOf(Or_(h, Get(tx, "direction"), VStr("expense")))

(* accountName, or the default account of the direction *)
AccountOrDefault(h, tx, direction) ==
  Or_(h, Get(tx, "accountName"), VStr(IF direction = "expense" THEN ZAPPI ELSE URIAGEDAKA))

(* account_confidence, or confidence when it is None *)
AccountConfidenceOf(tx) ==
  IF ~IsNone(Get(tx, "account_confidence")) THEN Get(tx, "account_confidence")
  ELSE Get(tx, "confidence")

(* json.dumps raises on a datetime *)
Dumpable(h, tx) == \A k \in DOMAIN tx : tx[k].t # "datetime"

(* pipeline.py lines 258-264: the audit text; a dump is held as the document *)
(* it encodes                                                              *)
AuditText(h, tx, invoice_id, given) ==
  IF ~IsNone(given) THEN VStr(PyStr(given))
  ELSE IF Truthy(h, invoice_id)
       THEN [t |-> "json", v |-> [invoice_id |-> invoice_id, transaction |-> tx]]
       ELSE [t |-> "json", v |-> tx]

RawResponseOf(h, tx, invoice_id) ==
  AuditText(h, tx, invoice_id, Or_(h, Get(tx, "raw_response"), Get(tx, "claude_raw_response")))

(* the row, what may raise already read: dir, amount and conf are <<x>>    *)
(* or <<>>, given is the audit text the transaction carries                *)
PredictionChecked(h, tx, tenant_id, invoice_id, id, dir, amount, conf, given, tokens) ==
  IF \/ dir = << >> \/ amount = << >> \/ conf = << >>
     \/ (IsNone(given) /\ ~Dumpable(h, tx))
     \/ ~(tokens.t \in {"none", "int", "float", "bool"})
  THEN [ok |-> FALSE, row |-> << >>]
  ELSE [ok |-> TRUE,
        row |-> [id |-> id,
                 tenant_id |-> tenant_id,
                 input_vendor |-> PyStr(Or_(h, Get(tx, "vendor"), VStr(""))),
                 input_description |-> PyStr(Or_(h, Get(tx, "description"), VStr(""))),
                 input_amount |-> VFlt(amount[1]),
                 input_direction |-> dir[1],
                 predicted_account |-> PyStr(AccountOrDefault(h, tx, dir[1])),
                 account_confidence |-> VFlt(conf[1]),
                 reasoning |-> Get(tx, "reasoning"),
                 matched_vendor_id |-> Get(tx, "matched_vendor_id"),
                 matched_vendor_code |-> Get(tx, "matched_vendor_code"),
                 matched_vendor_name |-> Get(tx, "matched_vendor_name"),
                 vendor_confidence |-> Get(tx, "vendor_confidence"),
                 matched_account_id |-> Get(tx, "matched_account_id"),
                 matched_account_code |-> Get(tx, "matched_account_code"),
                 matched_account_name |-> Get(tx, "matched_account_name"),
                 claude_model |-> PyStr(Or_(h, Get(tx, "claude_model"), VStr("dify"))),
                 tokens_used |-> tokens,
                 raw_response |-> AuditText(h, tx, invoice_id, given),
                 status |-> PyStr(Or_(h, Get(tx, "status"), VStr("completed"))),
                 error_message |-> Get(tx, "error_message")]]

(* pipeline.py lines 251-288 with save_prediction lines 134-159: [ok, row], *)
(* the claude_predictions row, ok FALSE when computing it raises           *)
PredictionRow(h, tx, tenant_id, invoice_id, id) ==
  PredictionChecked(h, tx, tenant_id, invoice_id, id,
                    LowerDirection(h, tx),
                    PyFloat(Or_(h, Get(tx, "amount"), VInt(0))),
                    PyFloat(Or_(h, AccountConfidenceOf(tx), VInt(0))),
                    Or_(h, Get(tx, "raw_response"), Get(tx, "claude_raw_response")),
                    Get(tx, "claude_tokens_used"))

(* the fields, the direction, the amount and the date already read *)
JournalFields(h, tx, direction, abs_amount, parsed) ==
  [transaction_date |-> IF IsNone(parsed) THEN _utcnow ELSE parsed,
   transaction_type |-> VStr(direction),
   income_amount |-> IF direction = "income" THEN VFlt(abs_amount) ELSE VNone,
   expense_amount |-> IF direction # "income" THEN VFlt(abs_amount) ELSE VNone,
   account_subject |-> AccountOrDefault(h, tx, direction),
   matched_account_id |-> Get(tx, "matched_account_id"),
   matched_account_code |-> Get(tx, "matched_account_code"),
   vendor |-> Get(tx, "vendor"),
   matched_vendor_id |-> Get(tx, "matched_vendor_id"),
   matched_vendor_code |-> Get(tx, "matched_vendor_code"),
   description |-> Or_(h, Or_(h, Get(tx, "reasoning"), Get(tx, "claude_description")),
                       Get(tx, "description")),
   account_book |-> Or_(h, Get(tx, "account_book"), VStr(FUTSU_YOKIN)),
   tax_category |-> Or_(h, Get(tx, "tax_category"),
                        VStr(IF direction = "income" THEN KAZEI_URIAGE_10 ELSE KAZEI_SHIIRE_10)),
   memo |-> build_journal_memo(
              Or_(h, Or_(h, Get(tx, "reasoning"), Get(tx, "claude_description")), Get(tx, "memo")),
              AccountConfidenceOf(tx), Get(tx, "vendor_confidence")),
   tag_names |-> Or_(h, Get(tx, "tag_names"), VStr(TAG_AI))]

(* convert_transaction_to_mf_journal_fields; the transaction reached it, so *)
(* its direction and amount were read without raising                      *)
convert_transaction_to_mf_journal_fields(h, tx) ==
  JournalFields(h, tx, LowerDirection(h, tx)[1],
                Abs(PyFloat(Or_(h, Get(tx, "amount"), VInt(0)))[1]),
                _parse_date(Get(tx, "date")))

(* the row, the fields f and the direction given *)
JournalOf(h, tx, tenant_id, claude_prediction_id, id, f, direction) ==
  [id |-> id,
   tenant_id |-> tenant_id,
   claude_prediction_id |-> IF claude_prediction_id = "" THEN VNone ELSE VStr(claude_prediction_id),
   transaction_date |-> f.transaction_date,
   transaction_type |-> PyStr(Or_(h, f.transaction_type, VStr(direction))),
   income_amount |-> f.income_amount,
   expense_amount |-> f.expense_amount,
   account_subject |-> PyStr(Or_(h, f.account_subject, AccountOrDefault(h, tx, direction))),
   matched_account_id |-> f.matched_account_id,
   matched_account_code |-> f.matched_account_code,
   vendor |-> f.vendor,
   matched_vendor_id |-> f.matched_vendor_id,
   matched_vendor_code |-> f.matched_vendor_code,
   description |-> f.description,
   account_book |-> f.account_book,
   tax_category |-> f.tax_category,
   memo |-> f.memo,
   tag_names |-> f.tag_names,
   csv_exported |-> FALSE,
   mf_imported |-> FALSE,
   status |-> PyStr(Or_(h, Get(tx, "journal_status"), VStr("draft"))),
   error_message |-> Get(tx, "journal_error_message")]

(* pipeline.py lines 290-311 with save_journal_entry lines 240-266: the    *)
(* mf_journal_entries row                                                  *)
JournalRow(h, tx, tenant_id, claude_prediction_id, id) ==
  JournalOf(h, tx, tenant_id, claude_prediction_id, id,
            convert_transaction_to_mf_journal_fields(h, tx), LowerDirection(h, tx)[1])

---------------------------------------------------------------------------
(* The calls of the pipeline: the caller's data and the arguments *)

(* raw items of the kind the ingestion side sends, and transactions of the *)
(* kind a caller passes as already normalised                              *)
RawExpense ==
  [amount |-> VInt(5000), direction |-> VStr("expense"), vendor |-> VStr(TOKYO_DENRYOKU),
   description |-> VStr(DENKIDAI), date |-> VStr("2024-01-15"),
   accountItem |-> VStr(SUIDOU_KOUNETSUHI)]
RawIncome ==
  [amount |-> VStr("-1200.5"), type |-> VStr("in"), summary |-> VStr("sale")]
TxExpense(ref) ==
  [date |-> VStr("2024-01-15"), vendor |-> VStr(TOKYO_DENRYOKU), description |-> VStr(DENKIDAI),
   amount |-> VInt(5000), direction |-> VStr("expense"),
   accountName |-> VStr(SUIDOU_KOUNETSUHI), confidence |-> VInt(87), _ref |-> ref]
TxIncome(ref) ==
  [date |-> VNone, vendor |-> VStr("shop"), description |-> VStr("sale"),
   amount |-> VFlt(1200500), direction |-> VStr("income"), _ref |-> ref]

RawOf(k) == IF k % 2 = 1 THEN RawExpense ELSE RawIncome
TxOf(k, ref) == IF k % 2 = 1 THEN TxExpense(ref) ELSE TxIncome(ref)

(* the caller's objects for a batch of n: the raw items at 1..n and, when  *)
(* the caller passes transactions, these at n+1..2n, each naming its raw   *)
(* item as _ref                                                            *)
CallerHeap(path, n) ==
  IF path = "inferred" THEN [k \in 1..n |-> RawOf(k)]
  ELSE [k \in 1..(2 * n) |-> IF k <= n THEN RawOf(k) ELSE TxOf(k - n, VDict(k - n))]
CallerList(path, n) ==
  IF path = "inferred" THEN [k \in 1..n |-> VDict(k)] ELSE [k \in 1..n |-> VDict(n + k)]

(* the arguments of a call of run_account_classifier *)
RunCall(path, n, predictor, generate_mf_csv, persist_db, db_pool, tenant_id) ==
  [entry |-> "run", path |-> path, n |-> n, predictor |-> predictor,
   generate_mf_csv |-> generate_mf_csv, persist_db |-> persist_db, db_pool |-> db_pool,
   tenant_id |-> tenant_id, invoice_id |-> VStr("inv-1"), strict |-> FALSE]

(* the arguments of a direct call of persist_transactions_to_db *)
PersistCall(n, db_pool, tenant_id, strict) ==
  [entry |-> "persist", path |-> "transactions", n |-> n, predictor |-> "none",
   generate_mf_csv |-> FALSE, persist_db |-> TRUE, db_pool |-> db_pool,
   tenant_id |-> tenant_id, invoice_id |-> VNone, strict |-> strict]

(* predictor: "given" is an argument, "ambient" is none given and           *)
(* ClaudePredictor() succeeds, "none" is none given and ClaudePredictor()  *)
(* raises                                                                  *)
CallsOf(n) ==
  UNION { { RunCall(path, n, "given", TRUE, persist, "pool", VStr("t1")) :
              path \in {"inferred", "transactions"}, persist \in BOOLEAN },
          { RunCall("inferred", n, "ambient", FALSE, TRUE, "pool", VStr("t1")),
            RunCall("transactions", n, "none", TRUE, TRUE, "pool", VStr("t1")),
            RunCall("transactions", n, "none", TRUE, TRUE, "none", VStr("t1")),
            RunCall("inferred", n, "given", TRUE, TRUE, "pool", VNone) },
          { PersistCall(n, "pool", VStr("t1"), strict) : strict \in BOOLEAN },
          { PersistCall(n, "none", VStr("t1"), TRUE), PersistCall(n, "pool", VStr(""), FALSE) } }

Calls == UNION { CallsOf(n) : n \in 0..MaxTx }

---------------------------------------------------------------------------
(* pipeline.py: the orchestration as a state machine *)

NoResult == [kind |-> "none"]
Returned(txs, csv, count, ids, errs) ==
  [kind |-> "returned", transactions |-> txs, mf_csv |-> csv, persisted_count |-> count,
   persisted_entry_ids |-> ids, errors |-> errs]
ReturnedPair(count, ids) == [kind |-> "pair", saved |-> count, entry_ids |-> ids]
Raised(type, message) == [kind |-> "raised", type |-> type, message |-> message]

Idle == [op |-> "idle"]

(* the contents of the dicts a list names *)
ContentsOf(h, q) == [i \in 1..Len(q) |-> h[q[i].v]]

(* the text generate_csv returned, None when it raised *)
CsvOf(r) == IF r.ok THEN [t |-> "csv", v |-> r.rows] ELSE VNone

(* lines 182-188: dict(tx) without _ref, for each dict of the list *)
CleanOf(h, dicts) == [i \in 1..Len(dicts) |-> Pop(h[dicts[i].v], "_ref")]

(* build_mf_csv_from_transactions: the text or None; dict(tx) is a copy   *)
(* that no one else holds, so it is not put on the heap                    *)
build_mf_csv_from_transactions(h, txs) ==
  IF Len(txs) = 0 THEN VNone
  ELSE CsvOf(generate_csv(h, CleanOf(h, SelectSeq(txs, IsDict))))

InitPipeline ==
  \E c \in Calls :
     /\ input = c
     /\ heap = CallerHeap(c.path, c.n)
     /\ transactions = << >>
     /\ pre = << >>
     /\ pc = "start"
     /\ predLog = << >>
     /\ idx = 0
     /\ errors = << >>
     /\ mf_csv = VNone
     /\ saved = 0
     /\ perrors = << >>
     /\ entry_ids = << >>
     /\ prediction_id = ""
     /\ attempted = {}
     /\ db = [predictions |-> << >>, journal |-> << >>]
     /\ result = NoResult

Init == InitPipeline /\ ldr = Idle /\ prd = Idle /\ exp = Idle /\ fun = Idle /\ mf = Idle

(* no call of the pipeline is under way *)
NoCall == RunCall("transactions", 0, "none", FALSE, FALSE, "none", VNone)

PipelineIdle ==
  /\ input = [NoCall EXCEPT !.entry = "none"]
  /\ transactions = << >>
  /\ pre = << >>
  /\ pc = "idle"
  /\ predLog = << >>
  /\ idx = 0
  /\ errors = << >>
  /\ mf_csv = VNone
  /\ saved = 0
  /\ perrors = << >>
  /\ entry_ids = << >>
  /\ prediction_id = ""
  /\ attempted = {}
  /\ db = [predictions |-> << >>, journal |-> << >>]
  /\ result = NoResult

(* lines 372-380: the transactions extracted from the inferred accounts, *)
(* or the list the caller passed                                           *)
Extracted(given) ==
  IF input.path = "inferred"
  THEN extract_transactions_from_inferred_accounts(heap, VList(given), VNone, VNone)
  ELSE [raised |-> FALSE, h |-> heap, q |-> SelectSeq(given, IsDict)]

(* line 382: the batch normalised *)
Prepared(raw) == normalize_transactions(raw.h, raw.q)

(* lines 384-385: an empty batch is returned at once *)
StartOn(r) ==
  /\ heap' = r.h
  /\ transactions' = r.q
  /\ pre' = ContentsOf(r.h, r.q)
  /\ IF input.entry = "persist"
     THEN /\ result' = result
          /\ pc' = "persist"
          /\ idx' = idx
     ELSE IF Len(r.q) = 0
     THEN /\ result' = Returned(<< >>, VNone, 0, << >>, << >>)
          /\ pc' = "done"
          /\ idx' = idx
     ELSE /\ result' = result
          /\ pc' = IF input.predictor = "none" THEN "export" ELSE "classify"
          /\ idx' = 1

(* run_account_classifier lines 370-385, then classify_transactions lines  *)
(* 208-213 and classify_transactions_with_claude lines 71-85. A direct     *)
(* caller of persist_transactions_to_db prepares its batch with            *)
(* normalize_transactions and calls it                                     *)
Start ==
  /\ pc = "start"
  /\ StartOn(Prepared(Extracted(CallerList(input.path, input.n))))
  /\ UNCHANGED <<input, predLog, errors, mf_csv, saved, perrors, entry_ids, prediction_id,
                 attempted, db, ldr, prd, exp, fun, mf>>

(* what the language model may answer during a run *)
ReplyMatch ==
  "{\"account\": \"<65c5><8cbb>\", \"confidence\": 87, \"reasoning\": \"r1\", "
  \o "\"vendor_match\": {\"id\": \"v1\", \"name\": \"V\", \"confidence\": 65}}"
ReplyDescription == "{\"account\": \"<6d88><8017><54c1>\", \"description\": \"d1\"}"
ReplyInvalid == "Sorry, I cannot classify this."
PipelineReplies == {ReplyMatch, ReplyDescription, ReplyInvalid}

(* a loop that goes from any transaction straight to the last one *)
ClassifyAdvanceToLast ==
  IF idx = Len(transactions) THEN pc' = "export" /\ idx' = idx
  ELSE pc' = "classify" /\ idx' = Len(transactions)

(* the loop of classify_transactions_with_claude moves to the next        *)
(* transaction, or run_account_classifier goes on at line 393              *)
ClassifyAdvance ==
  IF idx = Len(transactions) THEN pc' = "export" /\ idx' = idx
  ELSE pc' = "classify" /\ idx' = idx + 1

(* a loop that a failed call ends, the transactions after it left as they  *)
(* were                                                                    *)
PredictFailsAborts ==
  /\ pc = "classify"
  /\ predLog' = Append(predLog, [raised |-> TRUE, pred |-> VNone])
  /\ pc' = "export"
  /\ idx' = idx
  /\ UNCHANGED <<heap, input, transactions, pre, errors, mf_csv, saved, perrors, entry_ids,
                 prediction_id, attempted, db, result, ldr, prd, exp, fun, mf>>

(* lines 88-96 and 143-144: predictor.predict raises (the call to the     *)
(* language model fails); the exception is logged and the loop goes on     *)
PredictFails ==
  /\ pc = "classify"
  /\ predLog' = Append(predLog, [raised |-> TRUE, pred |-> VNone])
  /\ ClassifyAdvance
  /\ UNCHANGED <<heap, input, transactions, pre, errors, mf_csv, saved, perrors, entry_ids,
                 prediction_id, attempted, db, result, ldr, prd, exp, fun, mf>>

(* lines 98-142: the prediction is merged into the transaction at a *)
PredictMerged(a, pred) ==
  /\ heap' = MergePrediction(heap, a, pred)
  /\ predLog' = Append(predLog, [raised |-> FALSE, pred |-> pred])

(* lines 88-96: the arguments of predict, read from the transaction at a *)
PredictFor(a, reply) ==
  PredictMerged(a, predict(reply, PyStr(Or_(heap, Get(heap[a], "direction"), VStr("expense"))),
                           << >>, "claude-model", VInt(10)))

(* lines 88-142: predictor.predict returns and the prediction is merged    *)
PredictReturns(reply) ==
  /\ pc = "classify"
  /\ PredictFor(transactions[idx].v, reply)
  /\ ClassifyAdvance
  /\ UNCHANGED <<input, transactions, pre, errors, mf_csv, saved, perrors, entry_ids,
                 prediction_id, attempted, db, result, ldr, prd, exp, fun, mf>>

(* lines 399-417: the text is kept, and returned when no persistence is    *)
(* asked for                                                               *)
ExportOf(csv) ==
  /\ mf_csv' = csv
  /\ IF input.persist_db
     THEN pc' = "persist" /\ result' = result
     ELSE pc' = "done" /\ result' = Returned(transactions, csv, 0, << >>, errors)

(* run_account_classifier lines 393-399, and lines 411-417 when no         *)
(* persistence is asked for                                                *)
Export ==
  /\ pc = "export"
  /\ ExportOf(IF input.generate_mf_csv
              THEN build_mf_csv_from_transactions(heap, transactions) ELSE VNone)
  /\ UNCHANGED <<heap, input, transactions, pre, predLog, idx, errors, saved, perrors,
                 entry_ids, prediction_id, attempted, db, ldr, prd, exp, fun, mf>>

(* str(tenant_id or "") at line 403; a direct call passes a str *)
TenantArg == IF Truthy(heap, input.tenant_id) THEN PyStr(input.tenant_id) ELSE ""

(* how a call of persist_transactions_to_db that raised ends: its direct   *)
(* caller sees the exception, run_account_classifier lines 407-417 turn it *)
(* into an entry of errors                                                 *)
PersistRaises(type, message) ==
  IF input.entry = "run"
  THEN /\ errors' = Append(errors, "persist_failed: " \o message)
       /\ result' = Returned(transactions, mf_csv, 0, << >>,
                             Append(errors, "persist_failed: " \o message))
  ELSE /\ errors' = errors
       /\ result' = Raised(type, message)

(* persist_transactions_to_db lines 230-248 *)
PersistBegin ==
  /\ pc = "persist"
  /\ IF Len(transactions) = 0
     THEN /\ pc' = "done"
          /\ result' = ReturnedPair(0, << >>)
          /\ UNCHANGED <<idx, errors>>
     ELSE IF input.db_pool = "none"
     THEN /\ pc' = "done"
          /\ PersistRaises("ValueError", "db_pool is required when persist_db=True")
          /\ idx' = idx
     ELSE IF TenantArg = ""
     THEN /\ pc' = "done"
          /\ PersistRaises("ValueError", "tenant_id is required when persist_db=True")
          /\ idx' = idx
     ELSE /\ pc' = "save_prediction"
          /\ idx' = 1
          /\ UNCHANGED <<errors, result>>
  /\ saved' = 0
  /\ perrors' = << >>
  /\ entry_ids' = << >>
  /\ UNCHANGED <<heap, input, transactions, pre, predLog, mf_csv, prediction_id, attempted,
                 db, ldr, prd, exp, fun, mf>>

(* a strict call that gives up at the first failure instead of going on    *)
(* to the end of the batch                                                 *)
PersistAdvanceAtFirstFailure(count, ids, errs) ==
  /\ saved' = count
  /\ entry_ids' = ids
  /\ perrors' = errs
  /\ IF input.strict /\ Len(errs) > 0
     THEN /\ pc' = "done"
          /\ idx' = idx
          /\ PersistRaises("RuntimeError",
                 "Persist failed for " \o ToString(Len(errs)) \o "/"
                 \o ToString(Len(transactions)) \o " transactions. First error: " \o errs[1])
     ELSE IF idx < Len(transactions)
     THEN /\ pc' = "save_prediction"
          /\ idx' = idx + 1
          /\ UNCHANGED <<errors, result>>
     ELSE /\ pc' = "done"
          /\ idx' = idx
          /\ errors' = errors
          /\ result' = IF input.entry = "run"
                       THEN Returned(transactions, mf_csv, count, ids, errors)
                       ELSE ReturnedPair(count, ids)

(* lines 315-323, and lines 401-417 of run_account_classifier: the        *)
(* except clause records the failure in the local list; after the last    *)
(* transaction the call ends, raising in strict mode when the list is not  *)
(* empty and returning the pair (saved, entry_ids) otherwise               *)
PersistAdvance(count, ids, errs) ==
  /\ saved' = count
  /\ entry_ids' = ids
  /\ perrors' = errs
  /\ IF idx < Len(transactions)
     THEN /\ pc' = "save_prediction"
          /\ idx' = idx + 1
          /\ UNCHANGED <<errors, result>>
     ELSE /\ pc' = "done"
          /\ idx' = idx
          /\ IF input.strict /\ Len(errs) > 0
             THEN PersistRaises("RuntimeError",
                    "Persist failed for " \o ToString(Len(errs)) \o "/"
                    \o ToString(Len(transactions)) \o " transactions. First error: " \o errs[1])
             ELSE IF input.entry = "run"
             THEN /\ result' = Returned(transactions, mf_csv, count, ids, errors)
                  /\ errors' = errors
             ELSE /\ result' = ReturnedPair(count, ids)
                  /\ errors' = errors

(* line 317 *)
TxError(message) == "tx=" \o ToString(idx) \o ": " \o message

(* the row of the transaction under way *)
CurrentPrediction ==
  PredictionRow(heap, heap[transactions[idx].v], TenantArg, input.invoice_id,
                "p" \o ToString(Len(db.predictions) + 1))

(* the row r is inserted *)
PredictionSaved(r) ==
  /\ r.ok
  /\ db' = [db EXCEPT !.predictions = Append(@, r.row)]
  /\ prediction_id' = r.row.id

(* lines 250-288: save_prediction inserts the row and returns its id *)
SavePredictionOk ==
  /\ pc = "save_prediction"
  /\ PredictionSaved(CurrentPrediction)
  /\ attempted' = attempted \cup {idx}
  /\ pc' = "save_journal"
  /\ UNCHANGED <<heap, input, transactions, pre, predLog, idx, errors, mf_csv, saved, perrors,
                 entry_ids, result, ldr, prd, exp, fun, mf>>

(* lines 250-288 and 315-318: computing the arguments raises, or the       *)
(* datastore refuses the insert                                            *)
SavePredictionFails ==
  /\ pc = "save_prediction"
  /\ attempted' = attempted \cup {idx}
  /\ PersistAdvance(saved, entry_ids,
       Append(perrors, TxError(IF CurrentPrediction.ok THEN "connection lost"
                               ELSE "could not convert")))
  /\ UNCHANGED <<heap, input, transactions, pre, predLog, mf_csv, prediction_id, db,
                 ldr, prd, exp, fun, mf>>

(* lines 290-314: save_journal_entry inserts the row and returns its id *)
SaveJournalEntryOk ==
  /\ pc = "save_journal"
  /\ LET id == "e" \o ToString(Len(db.journal) + 1)
         row == JournalRow(heap, heap[transactions[idx].v], TenantArg, prediction_id, id)
     IN /\ db' = [db EXCEPT !.journal = Append(@, row)]
        /\ PersistAdvance(saved + 1, Append(entry_ids, id), perrors)
  /\ UNCHANGED <<heap, input, transactions, pre, predLog, mf_csv, prediction_id, attempted,
                 ldr, prd, exp, fun, mf>>

(* lines 290-311 and 315-318: the datastore refuses the insert *)
SaveJournalEntryFails ==
  /\ pc = "save_journal"
  /\ PersistAdvance(saved, entry_ids, Append(perrors, TxError("connection lost")))
  /\ UNCHANGED <<heap, input, transactions, pre, predLog, mf_csv, prediction_id, attempted, db,
                 ldr, prd, exp, fun, mf>>

Next ==
  \/ Start
  \/ PredictFails
  \/ \E reply \in PipelineReplies : PredictReturns(reply)
  \/ Export
  \/ PersistBegin
  \/ SavePredictionOk
  \/ SavePredictionFails
  \/ SaveJournalEntryOk
  \/ SaveJournalEntryFails

Spec == Init /\ [][Next]_vars

---------------------------------------------------------------------------
(* flexible_ocr_loader.py: the two extraction operations, called on their  *)
(* own with whatever the ingestion side hands them                         *)

(* the objects the caller holds: a mapping of the wrong shape, nested three *)
(* deep (1-3), two transaction-shaped items (4, 5), a wrapper around a      *)
(* text (6), a group of items (7), an invoice with one accounting entry     *)
(* (8, 9), a wrapper around a number (10)                                   *)
LoaderHeap ==
  << [foo |-> VDict(2)],
     [bar |-> VDict(3)],
     [baz |-> VList(<< VInt(1) >>)],
     RawExpense,
     RawIncome,
     [pending_journal_data |-> VStr("[{\"totalAmount\": 100, \"summary\": \"A<3078><306e>B\"}]")],
     [items |-> VList(<< VDict(4), VDict(5) >>), vendor |-> VStr("shop")],
     [totalAmount |-> VInt(3000), invoiceDate |-> VStr("2024-02-01"),
      summary |-> VStr("rent"), accounting |-> VList(<< VDict(9) >>)],
     [accountItem |-> VStr(ZAPPI), amount |-> VInt(3000), confidence |-> VFlt(900)],
     [pending_journal_data |-> VInt(5)] >>

(* texts that are not JSON, and texts that are *)
NonJsonTexts == {"not json", "{", "[1, 2", "{\"a\": }", "<96d1><8cbb>"}
JsonTexts == {"5", "null", "[]", "{}", "\"x\"", "[5, null]", "{\"foo\": {\"bar\": 1}}",
              "[{\"totalAmount\": 100}]", " [ {\"accounting\": [{\"amount\": -7}]} ] "}

LoaderElements == {VDict(1), VDict(4), VDict(5), VDict(7), VDict(8), VInt(5), VNone}

LoaderLists ==
  { << >> } \cup { << a >> : a \in LoaderElements }
            \cup { << a, b >> : a \in LoaderElements, b \in LoaderElements }

LoaderInputs ==
  {VNone, VInt(0), VInt(5), VInt(0 - 1), VFlt(1500), VBool(TRUE), VBool(FALSE), VStr("")}
  \cup { VStr(t) : t \in NonJsonTexts \cup JsonTexts }
  \cup { VDict(a) : a \in 1..Len(LoaderHeap) }
  \cup { VList(q) : q \in LoaderLists }

(* payloads of pending journal data, as JSON texts of a list *)
PayloadTexts ==
  { "[]",
    "[{\"totalAmount\": 100, \"summary\": \"A<3078><306e>B\"}]",
    "[5, {\"summary\": \"rent\", \"vendor\": \"shop\", \"totalAmount\": -5}]",
    "[{\"totalAmount\": 3000, \"invoiceDate\": \"2024-02-01\", \"accounting\": [{\"accountItem\": \"X\", \"amount\": 1000}, {\"date\": \"2024-02-02\"}]}, {\"totalAmount\": 7}]",
    "[{\"totalAmount\": 50, \"accounting\": [{\"amount\": 10, \"confidence\": \"high\"}, {\"amount\": 20}]}]",
    "[{\"totalAmount\": 7, \"accounting\": []}, {\"totalAmount\": 8, \"accounting\": \"[{\\\"amount\\\": 2}, {\\\"amount\\\": 3}]\"}, {\"totalAmount\": 9, \"accounting\": \"[{\"}]" }

(* the text of the wrapper mapping around a payload *)
WrapperText(text) == "{\"pending_journal_data\": " \o text \o "}"

(* summaries of pending journal items: X stands before one of the three   *)
(* phrases, before several of them, before none, after a line break        *)
MIKAMI == "<30d5><30eb><30fc><30c4><307f><304b><307f>"
SHIHARAI == "<652f><6255><3044>"

SummaryTexts ==
  { "", "   ", "rent", MIKAMI \o HENO \o SHIHARAI,
    "A" \o HENO \o "B", "A" \o KARA \o "B", "A" \o NITAISURU \o "B",
    "A" \o KARA \o "B" \o HENO \o "C", "A" \o NITAISURU \o "B" \o KARA \o "C",
    "A" \o NITAISURU \o "B" \o HENO \o "C", "A" \o HENO \o "B" \o HENO \o "C",
    HENO \o SHIHARAI, KARA \o "B", HENO \o "B" \o HENO \o "C",
    "  X " \o HENO \o "Y ", "x " \o KARA, "A\nB" \o HENO \o "C",
    "A" \o HENO \o "B\nC", "A" \o KARA \o "\nB" \o HENO \o "C" }

(* the vendor of a pending journal item: absent, None, empty, or given *)
VendorsGiven == {VNone, VStr(""), VStr("shop"), VStr("A" \o HENO)}

(* pending journal items with a summary and perhaps a vendor *)
VendorItems ==
  { [summary |-> VStr(s)] : s \in SummaryTexts }
  \cup { [summary |-> VStr(s), vendor |-> v] : s \in SummaryTexts, v \in VendorsGiven }

(* where the item of a call on one item is held *)
ItemAddress == Len(LoaderHeap) + 1

InitLoader ==
  /\ PipelineIdle
  /\ prd = Idle
  /\ exp = Idle
  /\ fun = Idle
  /\ mf = Idle
  /\ \/ /\ heap = LoaderHeap
        /\ \E fn \in {"pending", "inferred"}, arg \in LoaderInputs :
             ldr = [op |-> "call", fn |-> fn, arg |-> arg, raised |-> FALSE, txs |-> << >>]
     \/ /\ heap = LoaderHeap
        /\ \E text \in PayloadTexts :
             ldr = [op |-> "call", fn |-> "forms", arg |-> VStr(text), raised |-> FALSE,
                    txs |-> << >>]
     \/ \E item \in VendorItems :
          /\ heap = Alloc(LoaderHeap, item)
          /\ ldr = [op |-> "call", fn |-> "pending", arg |-> VList(<< VDict(ItemAddress) >>),
                    raised |-> FALSE, txs |-> << >>]

(* the call ends: it raised, or it returned the list q of dicts of h *)
LoaderEnds(raised, h, q) ==
  /\ heap' = h
  /\ ldr' = [ldr EXCEPT !.op = "done", !.raised = raised, !.txs = ContentsOf(h, q)]

LoaderReturns(r) == LoaderEnds(FALSE, r.h, r.q)

LoaderReturnsOrRaises(r) == LoaderEnds(r.raised, r.h, r.q)

(* extract_transactions_from_pending_journal_data(pending_journal_data=arg) *)
ExtractPending ==
  /\ ldr.op = "call"
  /\ ldr.fn = "pending"
  /\ LoaderReturns(extract_transactions_from_pending_journal_data(heap, ldr.arg))
  /\ UNCHANGED <<pipeVars, prd, exp, fun, mf>>

(* extract_transactions_from_inferred_accounts(inferred_accounts=arg) *)
ExtractInferred ==
  /\ ldr.op = "call"
  /\ ldr.fn = "inferred"
  /\ LoaderReturnsOrRaises(extract_transactions_from_inferred_accounts(heap, ldr.arg,
                                                                      VNone, VNone))
  /\ UNCHANGED <<pipeVars, prd, exp, fun, mf>>

(* the transactions of a result, every mapping written out *)
DeepTxs(r) == [i \in 1..Len(r.q) |-> Deep(r.h, r.q[i])]

(* the payload decoded and handed over as a list *)
AsRawList(r) == DeepTxs(extract_transactions_from_pending_journal_data(r.h, r.v))

(* the payload decoded and handed over in a wrapper mapping h2[Len(h2)] *)
InWrapper(h2) == DeepTxs(extract_transactions_from_pending_journal_data(h2, VDict(Len(h2))))

AsWrapper(r) == InWrapper(Alloc(r.h, [pending_journal_data |-> r.v]))

(* the payload, or its wrapper, handed over as a text *)
AsText(h, text) == DeepTxs(extract_transactions_from_pending_journal_data(h, VStr(text)))

(* extract_transactions_from_pending_journal_data called with the same     *)
(* payload in its four forms                                               *)
ExtractForms ==
  /\ ldr.op = "call"
  /\ ldr.fn = "forms"
  /\ ldr' = [op |-> "done", fn |-> ldr.fn, arg |-> ldr.arg, raised |-> FALSE,
             txs |-> AsText(heap, ldr.arg.v),
             raw |-> AsRawList(json_loads(heap, ldr.arg.v)),
             wrapper |-> AsWrapper(json_loads(heap, ldr.arg.v)),
             wrapped_text |-> AsText(heap, WrapperText(ldr.arg.v))]
  /\ UNCHANGED <<heap, pipeVars, prd, exp, fun, mf>>

NextLoader == ExtractPending \/ ExtractInferred \/ ExtractForms

SpecLoader == InitLoader /\ [][NextLoader]_vars

---------------------------------------------------------------------------
(* predictor_claude.py: predict called on its own; the reply of the         *)
(* language model is the input                                             *)

(* replies that hold no JSON object predict can read *)
UnparseableReplies ==
  {"", "   ", "Sorry, I cannot classify this.", " not json \n", "{", "{\"account\": ",
   "[1, 2]", "5", FENCE \o "json\nnone\n" \o FENCE}

(* replies that hold a JSON object that fails the validation of the        *)
(* response model                                                          *)
InvalidReplies ==
  {"{\"account\": 5}", "{\"confidence\": \"high\"}", "{\"account_match\": 5}",
   " {\"account\": \"A\", \"vendor_match\": {\"confidence\": \"x\"}} ",
   "{\"reasoning\": [1]}"}

(* replies that hold a valid object *)
ValidReplies ==
  {ReplyMatch, ReplyDescription, "{}",
   FENCE \o "json\n" \o ReplyDescription \o "\n" \o FENCE,
   "The answer is {\"account\": \"A\", \"confidence\": 0.9} I think.",
   "{\"account\": \"A\", \"account_match\": {\"code\": \"100\", \"name\": \"B\", \"confidence\": 95}}",
   "{\"account\": \"A\", \"matchedAccountName\": \"C\", \"accountConfidence\": \"40\"}",
   "{\"account\": \"  \", \"confidence\": 250, \"matched_vendor_id\": \"v9\", \"vendorConfidence\": 1}"}

(* the account fields of a reply, with the name and the confidence of     *)
(* the account match they hold                                             *)
AccountParts ==
  << [text |-> "", name |-> VNone, confidence |-> VNone],
     [text |-> "\"account\": \"A\", \"confidence\": 0.3", name |-> VNone, confidence |-> VNone],
     [text |-> "\"account\": \"A\", \"confidence\": 0.3, \"account_match\": {\"code\": \"100\", \"name\": \"B\", \"confidence\": 95}",
      name |-> VStr("B"), confidence |-> VInt(95)],
     [text |-> "\"account_match\": {\"name\": \"B\", \"confidence\": 0.2}, \"confidence\": 0.9, \"account\": \"A\"",
      name |-> VStr("B"), confidence |-> VFlt(200)],
     [text |-> "\"account\": \"A\", \"confidence\": 0.3, \"account_match\": {\"name\": \"\", \"confidence\": 0.9}",
      name |-> VStr(""), confidence |-> VFlt(900)],
     [text |-> "\"account\": \"A\", \"confidence\": 0.3, \"account_match\": {\"name\": \"B\"}, \"account_confidence\": 60",
      name |-> VStr("B"), confidence |-> VNone],
     [text |-> "\"account\": \"A\", \"account_match\": {\"name\": \"B\", \"confidence\": NaN}",
      name |-> VStr("B"), confidence |-> VFlt(NaN)],
     [text |-> "\"account\": \"A\", \"confidence\": NaN", name |-> VNone, confidence |-> VNone] >>

(* the vendor fields of a reply *)
VendorParts ==
  << "",
     "\"vendor_match\": {\"id\": \"v1\", \"name\": \"V\", \"confidence\": 70}",
     "\"matched_vendor_id\": \"v9\", \"vendor_confidence\": 40",
     "\"vendor_match\": {\"name\": \"W\"}, \"matchedVendorId\": \"v7\", \"vendorConfidence\": 0.5" >>

(* the reply that holds the account fields a and the vendor fields v *)
Reply(a, v) == "{" \o a \o (IF a # "" /\ v # "" THEN ", " ELSE "") \o v \o "}"

ComposedReplies ==
  { Reply(AccountParts[i].text, VendorParts[j]) :
      i \in 1..Len(AccountParts), j \in 1..Len(VendorParts) }

Replies == UnparseableReplies \cup InvalidReplies \cup ValidReplies \cup ComposedReplies

Directions == {"expense", "income", ""}

(* an account catalog: four names, one entry without a name *)
Catalog ==
  << [code |-> VStr("100"), name |-> VStr("Travel")],
     [code |-> VStr("200"), name |-> VStr("Rent")],
     [code |-> VStr("300")],
     [code |-> VStr("400"), name |-> VStr("Rant")],
     [code |-> VStr("500"), name |-> VStr("Ad Fee")] >>

(* accounts a reply names: names of the catalog, near misses of them, far  *)
(* from all of them, empty                                                 *)
CatalogAccounts ==
  { "Travel", " Travel ", "Travl", "Trail", "Tavern", "Tra", "Rnt", "Ren", "Parent",
    "Ad Fe", "Ad        Fee", "Fee", "Misc", " Misc ", "", "  " }

(* the reply that names the account *)
AccountReply(account) == "{\"account\": \"" \o account \o "\", \"confidence\": 0.9}"

InitPredict ==
  /\ PipelineIdle
  /\ heap = << >>
  /\ ldr = Idle
  /\ exp = Idle
  /\ fun = Idle
  /\ mf = Idle
  /\ \/ \E text \in Replies, direction \in Directions, tokens_used \in {VNone, VInt(10)} :
          prd = [op |-> "call", text |-> text, direction |-> direction,
                 account_masters |-> << >>, tokens_used |-> tokens_used, pred |-> VNone]
     \/ \E account \in CatalogAccounts, direction \in Directions :
          prd = [op |-> "call", text |-> AccountReply(account), direction |-> direction,
                 account_masters |-> Catalog, tokens_used |-> VInt(10), pred |-> VNone]

(* lines 189-298: the reply arrives and predict returns a prediction *)
PredictCall ==
  /\ prd.op = "call"
  /\ prd' = [prd EXCEPT !.op = "done",
                        !.pred = predict(prd.text, prd.direction, prd.account_masters,
                                         "claude-model", prd.tokens_used)]
  /\ UNCHANGED <<heap, pipeVars, ldr, exp, fun, mf>>

(* line 189: client.messages.create raises, and so does predict *)
PredictRaises ==
  /\ prd.op = "call"
  /\ prd' = [prd EXCEPT !.op = "raised"]
  /\ UNCHANGED <<heap, pipeVars, ldr, exp, fun, mf>>

NextPredict == PredictCall \/ PredictRaises

SpecPredict == InitPredict /\ [][NextPredict]_vars

---------------------------------------------------------------------------
(* mf_export_service.py: generate_csv called on its own *)

ExportExpense ==
  [date |-> VStr("2024-01-15"), vendor |-> VStr(TOKYO_DENRYOKU), description |-> VStr(DENKIDAI),
   amount |-> VInt(5000), direction |-> VStr("expense"), accountName |-> VStr(SUIDOU_KOUNETSUHI),
   fileName |-> VStr("invoice.pdf"), reasoning |-> VStr("r"),
   account_confidence |-> VFlt(875), vendor_confidence |-> VInt(65)]
ExportIncome ==
  [date |-> VNone, vendor |-> VStr("shop"), description |-> VStr("sale"),
   amount |-> VFlt(0 - 1200500), direction |-> VStr("income"), accountName |-> VStr(URIAGEDAKA)]
ExportNoAccount ==
  [vendor |-> VStr("v"), amount |-> VStr("300.9"), direction |-> VStr("expense"),
   subAccountItem |-> VStr("sub")]
ExportIncomeNoAccount ==
  [date |-> [t |-> "datetime", v |-> "2024/03/01"], vendor |-> VStr("w"), amount |-> VInt(0 - 7),
   direction |-> VStr("income"), accountName |-> VStr(""), confidence |-> VFlt(500)]
ExportOther ==
  [vendor |-> VStr("x"), amount |-> VBool(TRUE), direction |-> VStr("transfer")]
ExportBadAmount ==
  [date |-> VStr("2024-01-15"), vendor |-> VStr("y"), amount |-> VStr("abc"),
   direction |-> VStr("expense")]

ExportSamples == {ExportExpense, ExportIncome, ExportNoAccount, ExportIncomeNoAccount,
                  ExportOther, ExportBadAmount}

(* the lists of at most n samples *)
RECURSIVE ExportLists(_)
ExportLists(n) ==
  IF n = 0 THEN { << >> }
  ELSE ExportLists(n - 1)
       \cup { Append(q, t) : q \in { x \in ExportLists(n - 1) : Len(x) = n - 1 },
                             t \in ExportSamples }

InitExport ==
  /\ PipelineIdle
  /\ heap = << >>
  /\ ldr = Idle
  /\ prd = Idle
  /\ fun = Idle
  /\ mf = Idle
  /\ \E txs \in ExportLists(MaxTx) :
       exp = [op |-> "call", txs |-> txs, ok |-> FALSE, rows |-> << >>]

(* the call ends: r.ok is FALSE when it raised, else r.rows is the text *)
ExportEnds(r) == exp' = [exp EXCEPT !.op = "done", !.ok = r.ok, !.rows = r.rows]

(* MfExportService().generate_csv(txs) *)
GenerateCsv ==
  /\ exp.op = "call"
  /\ ExportEnds(generate_csv(heap, exp.txs))
  /\ UNCHANGED <<heap, pipeVars, ldr, prd, fun, mf>>

NextExport == GenerateCsv

SpecExport == InitExport /\ [][NextExport]_vars

---------------------------------------------------------------------------
(* transaction.py and formatting.py: the normalisers called on their own *)

(* a mapping of the kind the loaders hand to the normaliser *)
NormalizerBase ==
  [date |-> VStr("2024-01-15"), vendor |-> VStr("shop"), description |-> VStr("d"),
   amount |-> VInt(5000), direction |-> VStr("expense")]

(* the values a caller may put in a field *)
DateValues ==
  << VNone, VStr(""), VStr("2024/01/15"), VInt(1700000000),
     [t |-> "datetime", v |-> "2024/03/01"], VList(<< >>), VDict(1) >>
TextValues == << VNone, VStr(""), VInt(5), VFlt(1500), VBool(TRUE), VList(<< >>) >>
AmountValues ==
  << VNone, VStr("-1200.5"), VStr("abc"), VStr(" 12.5 "), VStr(""), VInt(0 - 3), VInt(0),
     VFlt(0 - 500), VFlt(300900), VBool(TRUE), VList(<< >>), VDict(1) >>
DirectionTexts ==
  << "income", "in", SHUUNYUU, NYUUKIN, "expense", "out", SHISHUTSU, SHUKKIN,
     "", "   ", "foo", " Income ", "EXPENSE", "OUT", "incoming", "spending", "refund",
     SHUU, "x" \o SHUUNYUU, SHUKKIN \o SHUU, "None", "expense income", "e", "debit" >>
DirectionValues ==
  << VNone, VInt(5), VInt(0), VBool(TRUE), VFlt(1500), VList(<< >>), VDict(1) >>
  \o [i \in 1..Len(DirectionTexts) |-> VStr(DirectionTexts[i])]
OptTextValues == << VNone, VStr(""), VStr("x"), VInt(5), VBool(FALSE), VList(<< >>) >>
ConfidenceValues ==
  << VNone, VInt(87), VInt(1), VInt(0), VStr("0.5"), VStr("87"), VStr("high"), VStr(""),
     VFlt(870), VFlt(0 - 200), VInt(150), VBool(TRUE), VList(<< >>) >>
RefValues == << VNone, VDict(1), VDict(3), VInt(1), VStr("r"), VList(<< VDict(3), VInt(2) >>) >>

(* the base with the field k set to each of the values *)
Variants(k, values) == [i \in 1..Len(values) |-> Put(NormalizerBase, k, values[i])]

(* the base without the field k *)
Without(k) == [f \in (DOMAIN NormalizerBase) \ {k} |-> NormalizerBase[f]]

(* the objects the caller holds: a raw item that holds another (1-3), and  *)
(* from 4 on the mappings handed to the normaliser                         *)
NormalizerHeap ==
  << [foo |-> VDict(2), n |-> VInt(1)], [bar |-> VDict(3)], [baz |-> VList(<< VInt(1) >>)] >>
  \o << << >>, NormalizerBase, Without("date"), Without("vendor"), Without("description"),
        Without("amount"), Without("direction"),
        [amount |-> VStr("-7"), type |-> VStr("in"), ref_ |-> VDict(1)],
        [direction |-> VStr(NYUUKIN), amount |-> VFlt(0 - 1200500), memo |-> VStr("keep"),
         tags |-> VList(<< VStr("a"), VDict(3) >>), _ref |-> VDict(1)] >>
  \o Variants("date", DateValues)
  \o Variants("vendor", TextValues)
  \o Variants("description", TextValues)
  \o Variants("amount", AmountValues)
  \o Variants("direction", DirectionValues)
  \o Variants("accountName", OptTextValues)
  \o Variants("subAccountItem", OptTextValues)
  \o Variants("reasoning", OptTextValues)
  \o Variants("confidence", ConfidenceValues)
  \o Variants("account_confidence", ConfidenceValues)
  \o Variants("vendor_confidence", ConfidenceValues)
  \o Variants("_ref", RefValues)
  \o Variants("ref_", RefValues)
  \o Variants("projectId", RefValues)

(* what a caller may hand to normalize_transaction_dict: a mapping, or a   *)
(* value that is none                                                      *)
NormalizerMappings == [i \in 1..Len(NormalizerHeap) |-> VDict(i)]
NonMappings == << VNone, VStr(""), VStr("{}"), VInt(5), VFlt(1500), VBool(TRUE), VList(<< >>) >>
NormalizerInputs == NormalizerMappings \o NonMappings


(* the lists a caller may hand to normalize_transactions: mappings that    *)
(* pass validation, one that does not, and items that are no mapping       *)
AddressOf(d) == CHOOSE i \in 1..Len(NormalizerHeap) : NormalizerHeap[i] = d
NormalizerItems ==
  { VDict(AddressOf(NormalizerBase)), VDict(AddressOf(Without("date"))),
    VDict(AddressOf(Put(NormalizerBase, "confidence", VStr("high")))), VInt(5), VNone }

RECURSIVE NormalizerLists(_)
NormalizerLists(n) ==
  IF n = 0 THEN { << >> }
  ELSE NormalizerLists(n - 1)
       \cup { Append(q, t) : q \in { x \in NormalizerLists(n - 1) : Len(x) = n - 1 },
                             t \in NormalizerItems }

(* the inputs of normalize_confidence_ratio: ratios, percentages, numbers  *)
(* out of range, nan, texts and values that are no number                  *)
RatioInputs ==
  << VNone, VInt(0), VInt(1), VInt(2), VInt(50), VInt(87), VInt(100), VInt(101), VInt(150),
     VInt(1000), VInt(0 - 1), VInt(0 - 50),
     VFlt(0), VFlt(1), VFlt(500), VFlt(870), VFlt(999), VFlt(1000), VFlt(1100), VFlt(50000),
     VFlt(99900), VFlt(100000), VFlt(100100), VFlt(0 - 100), VFlt(0 - 87000), VFlt(NaN),
     VStr("0.5"), VStr("87"), VStr(" 50 "), VStr("-3"), VStr("120.5"), VStr("nan"),
     VStr("high"), VStr(""), VStr("87%"), VBool(TRUE), VBool(FALSE),
     VList(<< >>), VList(<< VInt(1) >>), VDict(1) >>

(* a call of one of the normalisers *)
FunCall(fn, arg) == [op |-> "call", fn |-> fn, arg |-> arg]

InitNormalize ==
  /\ PipelineIdle
  /\ heap = NormalizerHeap
  /\ ldr = Idle
  /\ prd = Idle
  /\ exp = Idle
  /\ mf = Idle
  /\ \/ \E i \in 1..Len(NormalizerInputs) :
          fun = FunCall("normalize_transaction_dict", NormalizerInputs[i])
     \/ \E q \in NormalizerLists(MaxTx) : fun = FunCall("normalize_transactions", VList(q))
     \/ \E i \in 1..Len(DirectionValues) :
          fun = FunCall("_normalize_direction", DirectionValues[i])
     \/ \E i \in 1..Len(RatioInputs) :
          fun = FunCall("normalize_confidence_ratio", RatioInputs[i])

(* the caller normalises the record it got once more *)
NormalizedTwice(r1, r2) ==
  /\ heap' = r2.h
  /\ fun' = [op |-> "done", fn |-> fun.fn, arg |-> fun.arg,
             out |-> [ok |-> r1.ok, v |-> r1.v], again |-> [ok |-> r2.ok, v |-> r2.v]]

(* the record, or None and then there is nothing to normalise again *)
NormalizedOnce(r1) ==
  IF r1.ok THEN NormalizedTwice(r1, normalize_transaction_dict(r1.h, r1.v))
  ELSE NormalizedTwice(r1, r1)

(* normalize_transaction_dict(arg), and normalize_transaction_dict of what *)
(* it returned                                                             *)
NormalizeDict ==
  /\ fun.op = "call"
  /\ fun.fn = "normalize_transaction_dict"
  /\ NormalizedOnce(normalize_transaction_dict(heap, fun.arg))
  /\ UNCHANGED <<pipeVars, ldr, prd, exp, mf>>

(* the list normalize_transactions returned *)
NormalizedList(r) ==
  /\ heap' = r.h
  /\ fun' = [op |-> "done", fn |-> fun.fn, arg |-> fun.arg, out |-> r.q]

(* normalize_transactions(arg) *)
NormalizeList ==
  /\ fun.op = "call"
  /\ fun.fn = "normalize_transactions"
  /\ NormalizedList(normalize_transactions(heap, fun.arg.v))
  /\ UNCHANGED <<pipeVars, ldr, prd, exp, mf>>

(* Transaction._normalize_direction(arg) *)
NormalizeDirection ==
  /\ fun.op = "call"
  /\ fun.fn = "_normalize_direction"
  /\ fun' = [op |-> "done", fn |-> fun.fn, arg |-> fun.arg,
             out |-> VStr(_normalize_direction(fun.arg))]
  /\ UNCHANGED <<heap, pipeVars, ldr, prd, exp, mf>>

(* normalize_confidence_ratio(arg) *)
NormalizeConfidence ==
  /\ fun.op = "call"
  /\ fun.fn = "normalize_confidence_ratio"
  /\ fun' = [op |-> "done", fn |-> fun.fn, arg |-> fun.arg,
             out |-> normalize_confidence_ratio(fun.arg)]
  /\ UNCHANGED <<heap, pipeVars, ldr, prd, exp, mf>>

NextNormalize == NormalizeDict \/ NormalizeList \/ NormalizeDirection \/ NormalizeConfidence

SpecNormalize == InitNormalize /\ [][NextNormalize]_vars

---------------------------------------------------------------------------
(* routers/mf.py: the store of CSV exports. Every coroutine reads the      *)
(* clock and runs its locked section without an await in between, and no   *)
(* locked section awaits, so on the event loop each call is one step       *)

_CSV_EXPORT_TTL_SECONDS == 900

MaxExports == 3
MaxTicks == 3

(* the steps of the clock: half the time-to-live, and a second more *)
ClockSteps == { _CSV_EXPORT_TTL_SECONDS \div 2, _CSV_EXPORT_TTL_SECONDS \div 2 + 1 }

CsvTexts == { "a,b\n1,2\n", "x\n" }

(* uuid.uuid4() and secrets.token_urlsafe(32): new with every call *)
ExportId(n) == "export-" \o ToString(n)
DownloadToken(n) == "token-" \o ToString(n)
ExportIds == { ExportId(n) : n \in 1..MaxExports }

NoAccess == [op |-> "none"]

InitCache ==
  /\ PipelineIdle
  /\ heap = << >>
  /\ ldr = Idle
  /\ prd = Idle
  /\ exp = Idle
  /\ fun = Idle
  /\ mf = [_csv_exports |-> << >>, now |-> 0, ticks |-> 0, stored |-> 0,
           expired |-> {}, last |-> NoAccess]

(* line 60: the keys of the exports created before the cutoff *)
ExpiredKeys(exports, cutoff) == { k \in DOMAIN exports : exports[k].created_at < cutoff }

(* a store that sweeps nothing *)
StoredUnswept(exports, export_id, record, now) == Put(exports, export_id, record)

(* lines 57-70: the mapping after the sweep and the store *)
Stored(exports, export_id, record, now) ==
  Put([k \in (DOMAIN exports) \ ExpiredKeys(exports, now - _CSV_EXPORT_TTL_SECONDS) |-> exports[k]],
      export_id, record)

(* _store_csv_export(csv_text, tenant_id, mf_journal_entry_ids) *)
StoreCsvExport ==
  /\ mf.stored < MaxExports
  /\ \E csv_text \in CsvTexts :
       mf' = [mf EXCEPT
                !._csv_exports =
                   Stored(mf._csv_exports, ExportId(mf.stored + 1),
                          [created_at |-> mf.now, csv |-> csv_text,
                           token |-> DownloadToken(mf.stored + 1),
                           tenant_id |-> "t1", mf_journal_entry_ids |-> << >>], mf.now),
                !.stored = mf.stored + 1,
                !.last = [op |-> "store", at |-> mf.now, before |-> mf._csv_exports,
                          out |-> [export_id |-> ExportId(mf.stored + 1),
                                   token |-> DownloadToken(mf.stored + 1)]]]
  /\ UNCHANGED <<heap, pipeVars, ldr, prd, exp, fun>>

(* an export that never expires *)
IsExpiredNever(record, now) == FALSE

(* lines 80-81: created_at < now - TTL *)
IsExpired(record, now) == record.created_at < now - _CSV_EXPORT_TTL_SECONDS

(* lines 77-83: the record found, and the mapping after the lookup *)
Looked(exports, export_id, now) ==
  IF export_id \notin DOMAIN exports THEN [found |-> FALSE, exports |-> exports, gone |-> {}]
  ELSE IF IsExpired(exports[export_id], now)
  THEN [found |-> FALSE, exports |-> Pop(exports, export_id), gone |-> {export_id}]
  ELSE [found |-> TRUE, exports |-> exports, gone |-> {}, record |-> exports[export_id]]

(* the lookup fn of export_id returned out *)
LookedUp(fn, export_id, r, out) ==
  mf' = [mf EXCEPT !._csv_exports = r.exports,
                   !.expired = mf.expired \cup r.gone,
                   !.last = [op |-> "lookup", fn |-> fn, export_id |-> export_id, at |-> mf.now,
                             before |-> mf._csv_exports, out |-> out]]

(* _get_csv_export_record: a copy of the record, or None *)
RecordOf(fn, export_id, r) ==
  LookedUp(fn, export_id, r, IF r.found THEN [t |-> "record", v |-> r.record] ELSE VNone)

GetCsvExportRecord ==
  /\ \E export_id \in ExportIds :
       RecordOf("_get_csv_export_record", export_id, Looked(mf._csv_exports, export_id, mf.now))
  /\ UNCHANGED <<heap, pipeVars, ldr, prd, exp, fun>>

(* _get_csv_export: the CSV text, or None *)
CsvOfExport(fn, export_id, r) ==
  LookedUp(fn, export_id, r, IF r.found THEN VStr(r.record.csv) ELSE VNone)

GetCsvExport ==
  /\ \E export_id \in ExportIds :
       CsvOfExport("_get_csv_export", export_id, Looked(mf._csv_exports, export_id, mf.now))
  /\ UNCHANGED <<heap, pipeVars, ldr, prd, exp, fun>>

(* _get_csv_export_token: the token, or None *)
TokenOfExport(fn, export_id, r) ==
  LookedUp(fn, export_id, r, IF r.found THEN VStr(r.record.token) ELSE VNone)

GetCsvExportToken ==
  /\ \E export_id \in ExportIds :
       TokenOfExport("_get_csv_export_token", export_id,
                     Looked(mf._csv_exports, export_id, mf.now))
  /\ UNCHANGED <<heap, pipeVars, ldr, prd, exp, fun>>

(* download_csv_export, lines 323-351: 404 without a record, 401 for a     *)
(* wrong token, the CSV otherwise                                          *)
Downloaded(fn, export_id, token, r) ==
  LookedUp(fn, export_id, r,
           IF ~r.found THEN [t |-> "http", v |-> 404]
           ELSE IF token # r.record.token THEN [t |-> "http", v |-> 401]
           ELSE VStr(r.record.csv))

DownloadCsvExport ==
  /\ \E export_id \in ExportIds, token \in { DownloadToken(n) : n \in 1..2 } :
       Downloaded("download_csv_export", export_id, token,
                  Looked(mf._csv_exports, export_id, mf.now))
  /\ UNCHANGED <<heap, pipeVars, ldr, prd, exp, fun>>

(* time.time() moves on between two calls *)
Tick ==
  /\ mf.ticks < MaxTicks
  /\ \E d \in ClockSteps : mf' = [mf EXCEPT !.now = mf.now + d, !.ticks = mf.ticks + 1]
  /\ UNCHANGED <<heap, pipeVars, ldr, prd, exp, fun>>

NextCache ==
  \/ StoreCsvExport
  \/ GetCsvExportRecord
  \/ GetCsvExport
  \/ GetCsvExportToken
  \/ DownloadCsvExport
  \/ Tick

SpecCache == InitCache /\ [][NextCache]_vars

---------------------------------------------------------------------------
(* routers/mf.py: concurrent requests of register_pipeline and the         *)
(* singleton pool of _get_db_pool. A state is a point where every request  *)
(* is suspended at an await or has not started; asyncio.Lock grants the    *)
(* lock in the order of arrival                                            *)

MaxRequests == 3
Requests == 1..MaxRequests

NoPool == "none"
Unavailable == "503"

InitPool ==
  /\ PipelineIdle
  /\ heap = << >>
  /\ ldr = Idle
  /\ prd = Idle
  /\ exp = Idle
  /\ fun = Idle
  /\ \E asyncpg \in BOOLEAN, dsn \in BOOLEAN :
       mf = [_db_pool |-> NoPool, _db_pool_lock |-> 0, waiters |-> << >>,
             _csv_exports_lock |-> 0, exports |-> 0, created |-> 0,
             asyncpg |-> asyncpg, dsn |-> dsn,
             at |-> [r \in Requests |-> "start"], db_pool |-> [r \in Requests |-> NoPool]]

(* a block that is left without releasing the lock *)
ReleaseNever(holder) == holder

(* the lock is free again when the async with block is left *)
Release(holder) == 0

(* a second check that never sees the pool *)
PoolSeenNever(pool) == FALSE

(* line 155: the pool is there by now *)
PoolSeen(pool) == pool # NoPool

(* lines 239-245: _get_db_pool returned the pool, or raised 503 and the    *)
(* request goes on without persistence; line 250 awaits the tenant secret  *)
GotPool(m, r, pool) == [m EXCEPT !.db_pool[r] = pool, !.at[r] = "secret"]

(* lines 155-175 with the lock held by r: the pool that is there, 503      *)
(* without asyncpg or DATABASE_URL, else the await of create_pool          *)
Entered(m, r) ==
  IF PoolSeen(m._db_pool)
  THEN GotPool([m EXCEPT !._db_pool_lock = Release(r)], r, m._db_pool)
  ELSE IF ~m.asyncpg \/ ~m.dsn
  THEN GotPool([m EXCEPT !._db_pool_lock = Release(r)], r, Unavailable)
  ELSE [m EXCEPT !._db_pool_lock = r, !.at[r] = "creating"]

(* lines 151-154: the pool that is there, else the lock: taken at once     *)
(* when it is free and nobody waits, awaited otherwise                     *)
GetDbPool(r) ==
  /\ mf.at[r] = "start"
  /\ mf' = IF mf._db_pool # NoPool THEN GotPool(mf, r, mf._db_pool)
           ELSE IF mf._db_pool_lock # 0 \/ mf.waiters # << >>
           THEN [mf EXCEPT !.waiters = Append(mf.waiters, r), !.at[r] = "waiting"]
           ELSE Entered(mf, r)
  /\ UNCHANGED <<heap, pipeVars, ldr, prd, exp, fun>>

(* line 154: the first of the waiting requests is given the free lock *)
LockGranted(r) ==
  /\ mf.at[r] = "waiting"
  /\ mf._db_pool_lock = 0
  /\ mf.waiters # << >>
  /\ Head(mf.waiters) = r
  /\ mf' = Entered([mf EXCEPT !.waiters = Tail(mf.waiters)], r)
  /\ UNCHANGED <<heap, pipeVars, ldr, prd, exp, fun>>

(* line 175: create_pool returned; lines 185, 154: the pool is recorded,   *)
(* returned, and the lock released                                         *)
CreatePoolReturns(r) ==
  /\ mf.at[r] = "creating"
  /\ mf' = GotPool([mf EXCEPT !._db_pool = "pool-" \o ToString(mf.created + 1),
                              !.created = mf.created + 1,
                              !._db_pool_lock = Release(r)],
                   r, "pool-" \o ToString(mf.created + 1))
  /\ UNCHANGED <<heap, pipeVars, ldr, prd, exp, fun>>

(* lines 176-184: create_pool raised; 503, nothing recorded, lock released *)
CreatePoolRaises(r) ==
  /\ mf.at[r] = "creating"
  /\ mf' = GotPool([mf EXCEPT !._db_pool_lock = Release(r)], r, Unavailable)
  /\ UNCHANGED <<heap, pipeVars, ldr, prd, exp, fun>>

(* line 250: get_tenant_api_secret returned or raised; line 275 awaits the *)
(* pipeline, which awaits the language model and the database              *)
SecretRead(r) ==
  /\ mf.at[r] = "secret"
  /\ mf' = [mf EXCEPT !.at[r] = "pipeline"]
  /\ UNCHANGED <<heap, pipeVars, ldr, prd, exp, fun>>

(* lines 275-297: the pipeline returned; _store_csv_export takes the       *)
(* export lock, stores and releases it without an await in between         *)
PipelineReturns(r) ==
  /\ mf.at[r] = "pipeline"
  /\ mf._csv_exports_lock = 0
  /\ mf' = [mf EXCEPT !.exports = mf.exports + 1,
                      !._csv_exports_lock = Release(r),
                      !.at[r] = "done"]
  /\ UNCHANGED <<heap, pipeVars, ldr, prd, exp, fun>>

NextPool ==
  \E r \in Requests :
    \/ GetDbPool(r)
    \/ LockGranted(r)
    \/ CreatePoolReturns(r)
    \/ CreatePoolRaises(r)
    \/ SecretRead(r)
    \/ PipelineReturns(r)

SpecPool == InitPool /\ [][NextPool]_vars

---------------------------------------------------------------------------
(* Properties of persistence                                               *)

(* a run of the pipeline that reached the persistence loop has ended *)
RunPersisted ==
  /\ pc = "done"
  /\ input.entry = "run"
  /\ input.persist_db
  /\ attempted # {}

(* the entries of errs that name the index i *)
Naming(errs, i) == {k \in 1..Len(errs) : Contains(errs[k], "tx=" \o ToString(i) \o ":")}

(* C1: in non-strict mode, persisting a batch in which some transactions   *)
(* fail attempts every transaction, returns persisted_count equal to the   *)
(* number that succeeded, and reports to the caller an errors list with    *)
(* exactly one entry for each failed transaction, naming its index from 1  *)
C1_ErrorsReportedToCaller ==
  (RunPersisted /\ ~input.strict) =>
    /\ attempted = 1..Len(transactions)
    /\ result.kind = "returned"
    /\ result.persisted_count = Len(db.journal)
    /\ Len(result.errors) = Len(transactions) - Len(db.journal)
    /\ \A i \in 1..Len(transactions) :
         Cardinality(Naming(result.errors, i)) = Cardinality(Naming(perrors, i))

(* a strict call of persist_transactions_to_db *)
StrictCall == input.entry = "persist" /\ input.strict

(* the aggregate failure of strict mode *)
AggregateRaised == result.kind = "raised" /\ result.type = "RuntimeError"

(* C2: in strict mode persist_transactions_to_db raises one aggregate      *)
(* failure, and only after every transaction of the batch was attempted:   *)
(* nothing is raised while the loop is under way; the failure carries the  *)
(* number of failed transactions and the first error message; and when no  *)
(* transaction fails the call returns normally                             *)
C2_StrictRaisesAfterWholeBatch ==
  StrictCall =>
    /\ (pc \in {"save_prediction", "save_journal"}) => result = NoResult
    /\ AggregateRaised =>
         /\ pc = "done"
         /\ attempted = 1..Len(transactions)
         /\ Len(transactions) - saved > 0
         /\ Contains(result.message, "for " \o ToString(Len(transactions) - saved) \o "/")
         /\ Contains(result.message, "First error: " \o perrors[1])
    /\ (pc = "done" /\ attempted # {}) =>
         IF saved = Len(transactions)
         THEN result = ReturnedPair(Len(transactions), entry_ids)
         ELSE AggregateRaised

(* C2, its case: a strict call on three transactions of which the first    *)
(* failed and the two after it were saved has raised                       *)
C2_Witness ==
  /\ StrictCall
  /\ AggregateRaised
  /\ Len(transactions) = 3
  /\ saved = 2
  /\ Naming(perrors, 1) = {1}

---------------------------------------------------------------------------
(* Properties of classification                                            *)

(* a run whose classification loop is over *)
Classified ==
  /\ input.entry = "run"
  /\ input.predictor # "none"
  /\ Len(transactions) > 0
  /\ pc \in {"export", "persist", "save_prediction", "save_journal", "done"}

(* the transaction at position i, as it is now *)
TxAt(i) == heap[transactions[i].v]

(* the prediction of position i was merged into the transaction *)
MergedAt(i) ==
  /\ Get(TxAt(i), "accountName") = predLog[i].pred.account
  /\ Get(TxAt(i), "confidence") = predLog[i].pred.confidence
  /\ Get(TxAt(i), "claude_raw_response") = predLog[i].pred.raw_response

(* C3: for any list of mappings, run_account_classifier ends by returning  *)
(* a result record, never by raising; the record carries the transactions  *)
(* and the export text produced, and a failure of classification or of     *)
(* persistence (a failed write, a missing pool or tenant) is reported in   *)
(* errors                                                                  *)
C3_FailureReportedInErrors ==
  (pc = "done" /\ input.entry = "run") =>
    /\ result.kind = "returned"
    /\ result.transactions = transactions
    /\ result.mf_csv = mf_csv
    /\ (\/ \E i \in 1..Len(predLog) : predLog[i].raised
        \/ Len(perrors) > 0
        \/ (input.persist_db /\ Len(transactions) > 0
            /\ (input.db_pool = "none" \/ TenantArg = "")))
       => Len(result.errors) > 0

(* C4: when the classifier call fails for transaction i of a batch, every  *)
(* field of transaction i keeps the value it had before classification,    *)
(* and every other transaction of the batch, before and after i, is still  *)
(* classified                                                              *)
C4_FailedKeepsFieldsOthersClassified ==
  /\ (input.entry = "run" /\ pc # "start") =>
       \A i \in 1..Len(predLog) :
         IF predLog[i].raised THEN TxAt(i) = pre[i] ELSE MergedAt(i)
  /\ Classified => Len(predLog) = Len(transactions)

(* C4, its case: in a batch of three the call failed for the second, and   *)
(* the first and the third were classified                                 *)
C4_Witness ==
  /\ Classified
  /\ pc = "done"
  /\ Len(transactions) = 3
  /\ Len(predLog) = 3
  /\ predLog[2].raised
  /\ ~predLog[1].raised /\ ~predLog[3].raised
  /\ Get(TxAt(1), "accountName") # Get(pre[1], "accountName")

(* C5: when classification fails for at least one transaction of a run,    *)
(* the errors list of the result record holds a summary of that failure:   *)
(* an entry other than the summary of a failure of persistence             *)
C5_ClassificationFailureInErrors ==
  (pc = "done" /\ input.entry = "run" /\ result.kind = "returned"
     /\ \E i \in 1..Len(predLog) : predLog[i].raised) =>
    \E k \in 1..Len(result.errors) : ~Contains(result.errors[k], "persist_failed")

(* C8: after a run that classified transactions derived from raw items the *)
(* caller owns, each carried as _ref, the caller's raw item holds the      *)
(* account, the confidence, the reasoning and the vendor match of the      *)
(* classified transaction                                                  *)
C8_CallerItemMirrorsResult ==
  (pc = "done" /\ input.entry = "run" /\ Len(predLog) = Len(transactions)) =>
    \A i \in 1..Len(predLog) :
      ~predLog[i].raised =>
        /\ Get(heap[i], "accountItem") = Get(TxAt(i), "accountName")
        /\ Get(heap[i], "confidence") = Get(TxAt(i), "confidence")
        /\ Get(heap[i], "reasoning") = Get(TxAt(i), "reasoning")
        /\ Get(heap[i], "matchedVendorId") = Get(TxAt(i), "matched_vendor_id")
        /\ Get(heap[i], "matchedVendorName") = Get(TxAt(i), "matched_vendor_name")
        /\ Get(heap[i], "vendorConfidence") = Get(TxAt(i), "vendor_confidence")

---------------------------------------------------------------------------
(* Properties of the loader                                                *)

(* the malformed inputs: a text that is not JSON, None, an integer, a      *)
(* mapping of the wrong shape nested three deep (the object at 1)          *)
MalformedInputs ==
  { VStr(t) : t \in NonJsonTexts } \cup {VNone, VInt(0), VInt(5), VInt(0 - 1), VDict(1)}

(* C6: both extraction operations return the empty list and do not raise   *)
(* when fed a text that is not JSON, None, an integer, or a deeply nested  *)
(* mapping of the wrong shape                                              *)
C6_MalformedGivesEmptyList ==
  (ldr.op = "done" /\ ldr.arg \in MalformedInputs) => (~ldr.raised /\ ldr.txs = << >>)

---------------------------------------------------------------------------
(* Properties of the predictor                                             *)

(* the reply holds no JSON object that can be parsed, or one that fails    *)
(* the validation of the response, and predict has returned                *)
FallbackCase == prd.op = "done" /\ prd.text \in UnparseableReplies \cup InvalidReplies

(* the fallback prediction of a direction: the account is <96d1><8cbb> for *)
(* an expense and <58f2><4e0a><9ad8> for an income, the confidence is 0.0, *)
(* the reasoning is "fallback"                                             *)
IsFallback(pred, direction) ==
  /\ pred.account = VStr(IF direction = "income" THEN URIAGEDAKA ELSE ZAPPI)
  /\ pred.confidence = VFlt(0)
  /\ pred.reasoning = VStr("fallback")

(* C7, as stated: when the reply holds no JSON object that can be parsed,  *)
(* or fails the validation of the response, predict returns the fallback   *)
(* prediction of the direction with raw_response set to the text of the    *)
(* reply as it arrived                                                     *)
C7_RawResponseIsReplyText ==
  FallbackCase => (IsFallback(prd.pred, prd.direction) /\ prd.pred.raw_response = VStr(prd.text))

(* C7, amended: when the reply holds no JSON object that can be parsed, or *)
(* fails the validation of the response, predict returns the fallback      *)
(* prediction of the direction with raw_response set to the text of the    *)
(* reply without the white space before and after it                       *)
C7_FallbackPrediction ==
  FallbackCase =>
    (IsFallback(prd.pred, prd.direction) /\ prd.pred.raw_response = VStr(Strip(prd.text)))

(* C7, its case: a reply whose object fails validation, for an income *)
C7_Witness ==
  /\ prd.op = "done"
  /\ prd.text = " {\"account\": \"A\", \"vendor_match\": {\"confidence\": \"x\"}} "
  /\ prd.direction = "income"
  /\ prd.pred.account = VStr(URIAGEDAKA)
  /\ prd.pred.raw_response = VStr("{\"account\": \"A\", \"vendor_match\": {\"confidence\": \"x\"}}")

---------------------------------------------------------------------------
(* Properties of the export                                                *)

(* the position of a column in a row *)
Col(c) == CHOOSE i \in 1..Len(MF_COLUMNS) : MF_COLUMNS[i] = c

(* the account a row names: the one of the transaction, or the default of  *)
(* its direction                                                           *)
ResolvedAccount(tx) ==
  IF Get(tx, "accountName") \in {VNone, VStr("")}
  THEN (IF Get(tx, "direction") = VStr("expense") THEN ZAPPI ELSE URIAGEDAKA)
  ELSE Get(tx, "accountName").v

(* the amount of a row: the absolute value, truncated, as a text *)
AmountText(tx) == ToString(Abs(PyFloat(Get(tx, "amount"))[1]) \div Unit)

(* one side of a row carries the account, the vendor and the tax category, *)
(* the other the deposit account                                           *)
SidesOf(row, tx, account, vendor, tax, other, otherVendor, otherTax) ==
  /\ row[Col(account)] = ResolvedAccount(tx)
  /\ row[Col(vendor)] = Get(tx, "vendor").v
  /\ row[Col(tax)] = (IF account = COL_DR_ACCOUNT THEN KAZEI_SHIIRE_10 ELSE KAZEI_URIAGE_10)
  /\ row[Col(other)] = FUTSU_YOKIN
  /\ row[Col(otherVendor)] = ""
  /\ row[Col(otherTax)] = TAISHOGAI

(* the row of a transaction obeys the double-entry rule *)
DoubleEntry(row, tx) ==
  /\ row[Col(COL_DR_AMOUNT)] = row[Col(COL_CR_AMOUNT)]
  /\ row[Col(COL_DR_AMOUNT)] = AmountText(tx)
  /\ IF Get(tx, "direction") = VStr("expense")
     THEN SidesOf(row, tx, COL_DR_ACCOUNT, COL_DR_VENDOR, COL_DR_TAX,
                  COL_CR_ACCOUNT, COL_CR_VENDOR, COL_CR_TAX)
     ELSE SidesOf(row, tx, COL_CR_ACCOUNT, COL_CR_VENDOR, COL_CR_TAX,
                  COL_DR_ACCOUNT, COL_DR_VENDOR, COL_DR_TAX)

(* C9: in every encoded row the debit amount equals the credit amount, the *)
(* absolute value of the amount truncated to an integer, and one side      *)
(* carries the resolved account, the vendor and the tax category of the    *)
(* direction: for an expense the debit side, with the purchase category,   *)
(* the credit side being the deposit account with the exempt category; for *)
(* an income the sides invert, with the sales category on the credit side  *)
C9_DoubleEntryRows ==
  (exp.op = "done" /\ exp.ok) =>
    \A i \in 1..Len(exp.txs) : DoubleEntry(exp.rows[i + 1], exp.txs[i])

(* C9, its case: an expense and an income encoded in one text *)
C9_Witness ==
  /\ exp.op = "done"
  /\ exp.ok
  /\ exp.txs = << ExportExpense, ExportIncome >>
  /\ exp.rows[2][Col(COL_DR_ACCOUNT)] = SUIDOU_KOUNETSUHI
  /\ exp.rows[3][Col(COL_CR_ACCOUNT)] = URIAGEDAKA
  /\ exp.rows[3][Col(COL_CR_AMOUNT)] = "1200"

(* the header, column by column *)
FixedHeader ==
  << COL_NO, COL_DATE,
     COL_DR_ACCOUNT, COL_DR_SUB, COL_DR_DEPT, COL_DR_VENDOR, COL_DR_TAX, COL_DR_INVOICE,
     COL_DR_AMOUNT, COL_DR_TAXAMT,
     COL_CR_ACCOUNT, COL_CR_SUB, COL_CR_DEPT, COL_CR_VENDOR, COL_CR_TAX, COL_CR_INVOICE,
     COL_CR_AMOUNT, COL_CR_TAXAMT,
     COL_SUMMARY, COL_MEMO, COL_TAG, COL_TYPE, COL_CLOSING >>

(* C10: the text generate_csv returns starts with the fixed header of 23   *)
(* columns, in the same order whatever the transactions, followed by one   *)
(* row for each transaction, in order, whose transaction number is its     *)
(* position in the batch, from 1; for no transaction the header stands     *)
(* alone. (A transaction whose date or amount cannot be converted makes    *)
(* generate_csv raise, and then there is no text.)                         *)
C10_HeaderThenNumberedRows ==
  (exp.op = "done" /\ exp.ok) =>
    /\ Len(exp.rows) = Len(exp.txs) + 1
    /\ Len(FixedHeader) = 23
    /\ exp.rows[1] = FixedHeader
    /\ \A i \in 1..Len(exp.txs) :
         /\ Len(exp.rows[i + 1]) = 23
         /\ exp.rows[i + 1][1] = ToString(i)
         /\ exp.rows[i + 1][Col(COL_DR_VENDOR)] \o exp.rows[i + 1][Col(COL_CR_VENDOR)]
              = Get(exp.txs[i], "vendor").v

(* C10, its case: three transactions, numbered 1, 2, 3 *)
C10_Witness ==
  /\ exp.op = "done"
  /\ exp.ok
  /\ Len(exp.txs) = 3
  /\ exp.rows[1] = FixedHeader
  /\ << exp.rows[2][1], exp.rows[3][1], exp.rows[4][1] >> = << "1", "2", "3" >>

---------------------------------------------------------------------------
(* Properties of the normalisers                                           *)
---------------------------------------------------------------------------

NormalizedDict == fun.op = "done" /\ fun.fn = "normalize_transaction_dict" /\ fun.out.ok

(* C11: normalising a record that normalize_transaction_dict returned gives *)
(* an equal record: the same keys with equal values, the pass-through keys *)
(* and the mapping under _ref included.                                    *)
C11_NormalizeIsIdempotent ==
  NormalizedDict => /\ fun.again.ok
                    /\ Deep(heap, fun.again.v) = Deep(heap, fun.out.v)

(* a mapping with pass-through keys and a _ref was normalised twice, each  *)
(* pass building a new mapping                                             *)
C11_Witness ==
  /\ NormalizedDict
  /\ fun.again.ok
  /\ fun.again.v # fun.out.v
  /\ fun.out.v # fun.arg
  /\ {"memo", "tags", "_ref"} \subseteq DOMAIN heap[fun.out.v.v]
  /\ IsDict(heap[fun.out.v.v]["_ref"])
  /\ heap[fun.out.v.v]["direction"] # heap[fun.arg.v]["direction"]

NormalizedDirection == fun.op = "done" /\ fun.fn = "_normalize_direction"

IncomeSynonyms == {"income", "in", SHUUNYUU, NYUUKIN}
ExpenseSynonyms == {"expense", "out", SHISHUTSU, SHUKKIN}

(* the text has the income hint: "in" in any case, or the character 収 *)
IncomeHint(text) == Contains(Lower(text), "in") \/ Contains(text, SHUU)

(* C12: the direction normaliser answers "income" or "expense" for every   *)
(* input; an income synonym gives income and an expense synonym expense;   *)
(* an input that is no synonym and has no income hint (None, "", "foo")    *)
(* gives expense.                                                          *)
C12_DirectionIsTotal ==
  NormalizedDirection =>
    /\ fun.out \in {VStr("income"), VStr("expense")}
    /\ (fun.arg.t = "str" /\ fun.arg.v \in IncomeSynonyms) => fun.out = VStr("income")
    /\ (fun.arg.t = "str" /\ fun.arg.v \in ExpenseSynonyms) => fun.out = VStr("expense")
    /\ fun.arg \in {VNone, VStr(""), VStr("foo")} => fun.out = VStr("expense")
    /\ (/\ fun.arg.t = "str"
        /\ Lower(Strip(fun.arg.v)) \notin IncomeSynonyms
        /\ ~IncomeHint(fun.arg.v)) => fun.out = VStr("expense")

(* "foo" is no synonym and has no income hint: it became expense *)
C12_Witness ==
  /\ NormalizedDirection
  /\ fun.arg = VStr("foo")
  /\ fun.out = VStr("expense")

(* a text that only holds the hint became income *)
C12_HintWitness ==
  /\ NormalizedDirection
  /\ fun.arg = VStr("spending")
  /\ fun.out = VStr("income")

NormalizedConfidence == fun.op = "done" /\ fun.fn = "normalize_confidence_ratio"

(* the input as a number in fixed point: <<v>>, or <<>> when it is none    *)
NumberOf(x) == IF x.t \in {"int", "float", "bool", "str"} THEN PyFloat(x) ELSE << >>

(* the ratio the rule of the claim gives for the number v *)
RatioRule(v) ==
  IF v < 0 THEN 0
  ELSE IF v <= Unit THEN v
  ELSE IF v <= 100 * Unit THEN v \div 100
  ELSE Unit

(* the rule on every input that is a number, nan left aside: v, v/100, 1.0 *)
(* or 0.0 by the range of v, and absence for an input that is no number    *)
C13_PiecewiseRule ==
  NormalizedConfidence =>
    IF NumberOf(fun.arg) = << >> THEN fun.out = VNone
    ELSE IsNaN(NumberOf(fun.arg)[1]) \/ fun.out = VFlt(RatioRule(NumberOf(fun.arg)[1]))

(* C13: every result of normalize_confidence_ratio that is not absent lies *)
(* in [0, 1].                                                              *)
C13_RatioInUnitInterval ==
  (NormalizedConfidence /\ fun.out # VNone) =>
    /\ ~IsNaN(fun.out.v)
    /\ 0 <= fun.out.v
    /\ fun.out.v <= Unit


NormalizedItems == fun.op = "done" /\ fun.fn = "normalize_transactions"

(* the items of a list that are mappings *)
MappingsOf(items) == SelectSeq(items, IsDict)

(* C15: normalize_transaction_dict returns a record for every mapping and  *)
(* None exactly for an input that is no mapping; normalize_transactions    *)
(* returns one record for each mapping among its items.                    *)
C15_EveryMappingNormalizes ==
  /\ (fun.op = "done" /\ fun.fn = "normalize_transaction_dict") => (fun.out.ok <=> IsDict(fun.arg))
  /\ NormalizedItems => Len(fun.out) = Len(MappingsOf(fun.arg.v))

(* what does hold: an input that is no mapping gives None, and the list    *)
(* holds at most one record for each mapping, a mapping record each        *)
C15_NonMappingsGiveNone ==
  /\ (fun.op = "done" /\ fun.fn = "normalize_transaction_dict" /\ ~IsDict(fun.arg)) => ~fun.out.ok
  /\ NormalizedItems =>
       /\ Len(fun.out) <= Len(MappingsOf(fun.arg.v))
       /\ \A k \in 1..Len(fun.out) : IsDict(fun.out[k])

(* the mapping whose confidence is the text "high" was given and dropped   *)
C15_DroppedMapping ==
  /\ NormalizedItems
  /\ Len(fun.arg.v) = 2
  /\ \A k \in 1..2 : IsDict(fun.arg.v[k])
  /\ Len(fun.out) = 1


(* the amount of the mapping given and of the record returned *)
AmountGiven == Get(heap[fun.arg.v], "amount")
AmountReturned == heap[fun.out.v.v]["amount"]

(* the amount is a number, or a text float() reads *)
IsNumeric(x) == x.t \in {"int", "float", "bool", "str"} /\ PyFloat(x) # << >>

(* C16, as stated: the amount of every record the normaliser returns is    *)
(* not negative.                                                           *)
C16_AmountNonNegative == NormalizedDict => AmountReturned.v >= 0

(* C16, amended: the amount of every record the normaliser returns is a    *)
(* float; a number or a numeric text gives float(value) with its sign, and *)
(* a missing or malformed amount gives 0.0.                                *)
C16_AmountIsSignedFloat ==
  NormalizedDict =>
    /\ AmountReturned.t = "float"
    /\ IsNumeric(AmountGiven) => AmountReturned.v = PyFloat(AmountGiven)[1]
    /\ ~IsNumeric(AmountGiven) => AmountReturned.v = 0

(* the amount -1200.5 was given and the record holds -1200.5 *)
C16_Witness ==
  /\ NormalizedDict
  /\ AmountGiven = VFlt(0 - 1200500)
  /\ AmountReturned = VFlt(0 - 1200500)

(* a malformed amount was given and the record holds 0.0 *)
C16_MalformedWitness ==
  /\ NormalizedDict
  /\ AmountGiven.t \in {"str", "list"}
  /\ ~IsNumeric(AmountGiven)
  /\ AmountReturned = VFlt(0)

---------------------------------------------------------------------------
(* Properties of the predictions                                           *)
---------------------------------------------------------------------------

(* C14: the confidence of every AccountPrediction predict returns lies in  *)
(* [0, 1], whichever reply the language model gave.                        *)
C14_ConfidenceInUnitInterval ==
  prd.op = "done" =>
    /\ prd.pred.confidence.t = "float"
    /\ ~IsNaN(prd.pred.confidence.v)
    /\ 0 <= prd.pred.confidence.v
    /\ prd.pred.confidence.v <= Unit

(* the same, for the replies that hold no NaN *)
C14_ConfidenceOfFiniteReplies ==
  (prd.op = "done" /\ ~Contains(prd.text, "NaN")) =>
    /\ prd.pred.confidence.t = "float"
    /\ 0 <= prd.pred.confidence.v
    /\ prd.pred.confidence.v <= Unit

(* the vendor fields of a prediction *)
VendorFields(pred) == << pred.matched_vendor_id, pred.matched_vendor_name, pred.vendor_confidence >>

(* the prediction for the reply that holds the vendor fields v alone *)
VendorAlone(v) == predict(Reply("", v), prd.direction, << >>, "claude-model", prd.tokens_used)

(* the reply was composed of the account fields i and the vendor fields j *)
Composed(i, j) == prd.op = "done" /\ prd.text = Reply(AccountParts[i].text, VendorParts[j])

(* C18: when the reply has an account match with a non-empty name, the     *)
(* prediction's account is that name, whatever the general account field   *)
(* says, and its confidence is the normalised confidence of the match,     *)
(* whatever the general confidence says; the vendor fields of the          *)
(* prediction are those of the reply with the same vendor fields and no    *)
(* account field.                                                          *)
C18_AccountMatchOverrides ==
  \A i \in 1..Len(AccountParts), j \in 1..Len(VendorParts) :
    Composed(i, j) =>
      /\ (AccountParts[i].name \notin {VNone, VStr("")}) =>
           /\ prd.pred.account = AccountParts[i].name
           /\ prd.pred.matched_account_name = AccountParts[i].name
           /\ AccountParts[i].confidence # VNone =>
                prd.pred.confidence = normalize_confidence_ratio(AccountParts[i].confidence)
      /\ VendorFields(prd.pred) = VendorFields(VendorAlone(VendorParts[j]))

(* a reply with account "A" at 0.3, the account match "B" at 95 and a      *)
(* vendor match gave account "B" at 0.95 and the vendor at 0.7             *)
C18_Witness ==
  /\ Composed(3, 2)
  /\ prd.pred.account = VStr("B")
  /\ prd.pred.confidence = VFlt(950)
  /\ prd.pred.matched_vendor_id = VStr("v1")
  /\ prd.pred.vendor_confidence = VFlt(700)

---------------------------------------------------------------------------
(* Properties of the confidences of a result                               *)
---------------------------------------------------------------------------

ConfidenceKeys == {"confidence", "account_confidence", "vendor_confidence"}

(* absent, or a float between 0 and 1 *)
IsRatioOrAbsent(c) == IsNone(c) \/ (c.t = "float" /\ ~IsNaN(c.v) /\ 0 <= c.v /\ c.v <= Unit)

(* C17: in every transaction of a result, confidence, account_confidence   *)
(* and vendor_confidence are each absent or in [0, 1].                     *)
C17_ResultConfidencesAreRatios ==
  result.kind = "returned" =>
    \A i \in 1..Len(result.transactions) : \A k \in ConfidenceKeys :
      IsRatioOrAbsent(Get(heap[result.transactions[i].v], k))

(* the same for the confidence of the transactions that were classified    *)
C17_ClassifiedConfidenceIsRatio ==
  (result.kind = "returned" /\ Len(predLog) = Len(result.transactions)) =>
    \A i \in 1..Len(predLog) :
      ~predLog[i].raised => IsRatioOrAbsent(Get(heap[result.transactions[i].v], "confidence"))

---------------------------------------------------------------------------
(* Properties of the store of CSV exports                                  *)
---------------------------------------------------------------------------

LookupDone == mf.last.op = "lookup"

(* the export the last lookup asked for was stored when it was called *)
WasStored == mf.last.export_id \in DOMAIN mf.last.before

(* the age that export had at the lookup *)
AgeAtLookup == mf.last.at - mf.last.before[mf.last.export_id].created_at

(* the lookup gave the export: the record, its CSV or its token *)
GaveExport == mf.last.out \notin {VNone, [t |-> "http", v |-> 404]}

(* C19: a lookup gives a stored export only when its age is at most the    *)
(* time-to-live; a lookup of an older export gives nothing and removes it  *)
(* from the mapping; an export a lookup has removed is in the mapping no   *)
(* more, and no later lookup gives it.                                     *)
C19_LookupHonoursTimeToLive ==
  /\ (LookupDone /\ GaveExport) =>
       /\ WasStored
       /\ AgeAtLookup <= _CSV_EXPORT_TTL_SECONDS
       /\ mf.last.export_id \notin mf.expired
  /\ (LookupDone /\ WasStored /\ AgeAtLookup > _CSV_EXPORT_TTL_SECONDS) =>
       /\ ~GaveExport
       /\ mf.last.export_id \notin DOMAIN mf._csv_exports
       /\ mf.last.export_id \in mf.expired
  /\ (LookupDone /\ WasStored /\ AgeAtLookup <= _CSV_EXPORT_TTL_SECONDS) =>
       mf.last.out # VNone
  /\ mf.expired \cap DOMAIN mf._csv_exports = {}

(* an export was looked up a second time after a lookup had removed it,    *)
(* while a younger export was still stored                                 *)
C19_Witness ==
  /\ LookupDone
  /\ ~WasStored
  /\ mf.last.export_id \in mf.expired
  /\ mf.last.out = VNone
  /\ mf._csv_exports # << >>

(* an export was given at the age of exactly the time-to-live *)
C19_BoundaryWitness ==
  /\ LookupDone
  /\ GaveExport
  /\ AgeAtLookup = _CSV_EXPORT_TTL_SECONDS

(* no export in the mapping is older than the time-to-live *)
NoneOlderThanTtl ==
  \A k \in DOMAIN mf._csv_exports :
    mf.now - mf._csv_exports[k].created_at <= _CSV_EXPORT_TTL_SECONDS

(* a call has completed and the clock has not moved since *)
JustCompleted(op) == mf.last.op = op /\ mf.last.at = mf.now

(* C20, as stated: when a store or a lookup has completed, the mapping     *)
(* holds no export older than the time-to-live.                            *)
C20_NoExpiredAfterAnyAccess ==
  (JustCompleted("store") \/ JustCompleted("lookup")) => NoneOlderThanTtl

(* C20, amended: when a store has completed, the mapping holds no export   *)
(* older than the time-to-live; when a lookup has completed, the export it *)
(* asked for is not in the mapping if it is older, and the other exports   *)
(* are as they were.                                                       *)
C20_StoreSweepsLookupEvictsOne ==
  /\ JustCompleted("store") => NoneOlderThanTtl
  /\ JustCompleted("lookup") =>
       /\ \A k \in DOMAIN mf._csv_exports :
            k = mf.last.export_id =>
              mf.now - mf._csv_exports[k].created_at <= _CSV_EXPORT_TTL_SECONDS
       /\ \A k \in (DOMAIN mf.last.before) \ {mf.last.export_id} :
            k \in DOMAIN mf._csv_exports /\ mf._csv_exports[k] = mf.last.before[k]

(* a store swept an export older than the time-to-live *)
C20_Witness ==
  /\ JustCompleted("store")
  /\ \E k \in DOMAIN mf.last.before :
       /\ mf.now - mf.last.before[k].created_at > _CSV_EXPORT_TTL_SECONDS
       /\ k \notin DOMAIN mf._csv_exports

(* a lookup left another export that is older than the time-to-live *)
C20_LookupLeavesExpired ==
  /\ JustCompleted("lookup")
  /\ ~NoneOlderThanTtl

---------------------------------------------------------------------------
(* Properties of the locks and of the pool                                 *)
---------------------------------------------------------------------------

(* the request is suspended at an await of a network call: create_pool,    *)
(* the tenant secret, the pipeline's language model and database           *)
AwaitsNetwork(r) == mf.at[r] \in {"creating", "secret", "pipeline"}

HoldsLock(r) == mf._db_pool_lock = r \/ mf._csv_exports_lock = r

(* C21, as stated: no request holds the pool lock or the export lock while *)
(* it awaits a network call.                                               *)
C21_NoLockAcrossNetworkCall == \A r \in Requests : AwaitsNetwork(r) => ~HoldsLock(r)

(* C21, amended: the export lock is never held at an await, and the pool   *)
(* lock is held at an await only by the one request that awaits            *)
(* create_pool; no lock is held while the tenant secret or the pipeline is *)
(* awaited, or after the request is done.                                  *)
C21_LockOnlyAcrossCreatePool ==
  /\ mf._csv_exports_lock = 0
  /\ \A r \in Requests :
       /\ mf._db_pool_lock = r => mf.at[r] = "creating"
       /\ mf.at[r] = "creating" => mf._db_pool_lock = r

(* one request awaits create_pool with the lock, another waits for the     *)
(* lock, and a third awaits the pipeline without a lock                    *)
C21_Witness ==
  \E r, w, q \in Requests :
    /\ mf.at[r] = "creating" /\ mf._db_pool_lock = r
    /\ mf.at[w] = "waiting"
    /\ mf.at[q] = "pipeline" /\ ~HoldsLock(q)

(* the request came back from _get_db_pool with a pool *)
HasPool(r) == mf.db_pool[r] \notin {NoPool, Unavailable}

(* C29: at most one pool is ever created, every request that _get_db_pool  *)
(* returned to normally holds that one pool, and as long as no creation    *)
(* has succeeded no pool is recorded.                                      *)
C29_OnePoolForAll ==
  /\ mf.created <= 1
  /\ \A r \in Requests : HasPool(r) => (mf.created = 1 /\ mf.db_pool[r] = mf._db_pool)
  /\ mf.created = 0 => mf._db_pool = NoPool
  /\ mf.created = 1 => mf._db_pool # NoPool

(* a creation failed for one request, a later request created the pool,   *)
(* and a request that had waited for the lock received the same pool       *)
C29_Witness ==
  /\ mf.asyncpg /\ mf.dsn
  /\ mf.created = 1
  /\ \E r, q, w \in Requests :
       /\ mf.db_pool[r] = Unavailable
       /\ HasPool(q) /\ HasPool(w) /\ q # w
       /\ mf.db_pool[q] = mf.db_pool[w]

---------------------------------------------------------------------------
(* Properties of the loader                                                *)
---------------------------------------------------------------------------

FormsDone == ldr.op = "done" /\ ldr.fn = "forms"

(* C22: a payload gives the same transactions as a raw list, in a wrapper  *)
(* mapping under pending_journal_data, as the JSON text of the list and as *)
(* the JSON text of the wrapper.                                           *)
C22_SameForEveryForm ==
  FormsDone =>
    /\ ldr.wrapper = ldr.raw
    /\ ldr.txs = ldr.raw
    /\ ldr.wrapped_text = ldr.raw

(* what does hold: the list, the wrapper mapping and the text of the list  *)
(* give the same transactions                                              *)
C22_ListWrapperAndText ==
  FormsDone => (ldr.wrapper = ldr.raw /\ ldr.txs = ldr.raw)

(* a payload of two items gave three transactions as a list and one as the *)
(* text of the wrapper                                                     *)
C22_TextOfWrapperDiffers ==
  /\ FormsDone
  /\ Len(ldr.raw) = 3
  /\ Len(ldr.wrapped_text) = 1

(* the accounting entries of an item: those of its list, or of the list    *)
(* its text decodes to, none when there is no such list                    *)
DecodedEntries(r) == IF r.ok /\ IsList(r.v) THEN Deep(r.h, r.v).v ELSE << >>

EntriesOf(item) ==
  IF "accounting" \notin DOMAIN item.v THEN << >>
  ELSE IF item.v["accounting"].t = "list" THEN item.v["accounting"].v
  ELSE IF item.v["accounting"].t = "str"
  THEN DecodedEntries(json_loads(<< >>, item.v["accounting"].v))
  ELSE << >>

(* the mappings the transactions are read from, one for one: the entries   *)
(* of an item that has accounting entries, the item itself otherwise       *)
RECURSIVE EntriesOrItem(_)
EntriesOrItem(items) ==
  IF Len(items) = 0 THEN << >>
  ELSE IF Head(items).t # "dict" THEN EntriesOrItem(Tail(items))
  ELSE IF Len(EntriesOf(Head(items))) > 0
  THEN EntriesOf(Head(items)) \o EntriesOrItem(Tail(items))
  ELSE << Head(items) >> \o EntriesOrItem(Tail(items))

(* the items of the payload of the call, every mapping written out *)
PayloadOf(r) == Deep(r.h, r.v).v

PayloadItems == PayloadOf(json_loads(LoaderHeap, ldr.arg.v))

(* the mappings the transactions of the call were read from *)
ReadFrom(txs) == [i \in 1..Len(txs) |-> txs[i].v["_ref"]]

(* C23: an item with accounting entries gives one transaction for each of  *)
(* them, in their order, any other item gives exactly one, and the        *)
(* transactions are in the order of the items.                            *)
C23_OnePerEntryElseOnePerItem ==
  FormsDone => ReadFrom(ldr.raw) = EntriesOrItem(PayloadItems)

(* an entry with a confidence that is no number is left out, the entry     *)
(* after it is kept                                                       *)
C23_EntryLeftOut ==
  /\ FormsDone
  /\ Len(PayloadItems) = 1
  /\ Len(EntriesOrItem(PayloadItems)) = 2
  /\ Len(ldr.raw) = 1
  /\ ldr.raw[1].v["amount"] = VFlt(20 * Unit)

(* the call on one pending journal item has returned *)
OneItemDone == ldr.op = "done" /\ ldr.fn = "pending" /\ ldr.arg = VList(<< VDict(ItemAddress) >>)

(* the phrase pat stands in text after some X of the same line *)
FoundIn(text, pat) ==
  \E n \in 1..Len(text) : StartsAt(text, n + 1, pat) /\ ~Contains(SubSeq(text, 1, n), "\n")

(* v is the X that stands before the first pat of text *)
TakenBefore(text, pat, v) ==
  \E n \in 1..Len(text) :
    /\ StartsAt(text, n + 1, pat)
    /\ \A m \in 1..(n - 1) : ~StartsAt(text, m + 1, pat)
    /\ v = Strip(SubSeq(text, 1, n))

(* v is what the first of the three phrases found in text gives, "" when   *)
(* none is found                                                          *)
InferredAs(text, v) ==
  IF FoundIn(text, HENO) THEN TakenBefore(text, HENO, v)
  ELSE IF FoundIn(text, KARA) THEN TakenBefore(text, KARA, v)
  ELSE IF FoundIn(text, NITAISURU) THEN TakenBefore(text, NITAISURU, v)
  ELSE v = ""

(* the item of the call, and the vendor of the transaction read from it *)
ItemGiven == heap[ItemAddress]

VendorRead == ldr.txs[1]["vendor"]

(* C26: an item without a vendor gets the X of its summary that stands     *)
(* before the first of the phrases heno, kara, nitaisuru, tried in this    *)
(* order, found in the summary, and the empty vendor when none is found;   *)
(* an item with a vendor keeps it.                                         *)
C26_VendorInferredInOrder ==
  OneItemDone =>
    /\ Len(ldr.txs) = 1
    /\ IF Truthy(heap, Get(ItemGiven, "vendor")) THEN VendorRead = ItemGiven["vendor"]
       ELSE /\ IsStr(VendorRead)
            /\ InferredAs(Strip(ItemGiven["summary"].v), VendorRead.v)

(* kara stands before heno in the summary, heno is tried first: X is what   *)
(* stands before heno                                                      *)
C26_Witness ==
  /\ OneItemDone
  /\ ~Truthy(heap, Get(ItemGiven, "vendor"))
  /\ ItemGiven["summary"] = VStr("A" \o KARA \o "B" \o HENO \o "C")
  /\ VendorRead = VStr("A" \o KARA \o "B")

(* the example of the claim *)
C26_Mikami ==
  /\ OneItemDone
  /\ "vendor" \notin DOMAIN ItemGiven
  /\ ItemGiven["summary"] = VStr(MIKAMI \o HENO \o SHIHARAI)
  /\ VendorRead = VStr(MIKAMI)

(* a vendor is given and the summary has a phrase: the vendor is kept *)
C26_GivenVendorKept ==
  /\ OneItemDone
  /\ ItemGiven = [summary |-> VStr("A" \o HENO \o "B"), vendor |-> VStr("shop")]
  /\ VendorRead = VStr("shop")

(* predict has returned for a reply that names an account, a catalog given *)
CatalogDone == prd.op = "done" /\ Len(prd.account_masters) > 0

(* the account the reply names *)
AccountOf(r) == r.h[r.v.v]["account"].v

Raw == AccountOf(json_loads(<< >>, prd.text))

CatalogNames == {"Travel", "Rent", "Rant", "Ad Fee", ""}

(* the similarity r is at least 0.7 *)
Similar(r) == 10 * r[1] >= 7 * r[2]

(* x is a name of the catalog with a similarity to the text w of at least  *)
(* 0.7, and none has a greater one                                         *)
ClosestTo(x, w) ==
  /\ x \in CatalogNames
  /\ Similar(Ratio(x, w))
  /\ \A y \in CatalogNames : Ratio(y, w)[1] * Ratio(x, w)[2] <= Ratio(x, w)[1] * Ratio(y, w)[2]

NoneClose(w) == \A y \in CatalogNames : ~Similar(Ratio(y, w))

(* C27, as claimed: a name of the catalog is kept; else the closest name   *)
(* to the account, else to the account with its blanks collapsed, is       *)
(* taken; else the account of the reply is kept as it is, and no name of   *)
(* the catalog and no default comes in its place.                          *)
C27_CatalogNameOrRawAccount ==
  CatalogDone =>
    IF Raw \in CatalogNames THEN prd.pred.account = VStr(Raw)
    ELSE IF ~NoneClose(Raw) THEN ClosestTo(prd.pred.account.v, Raw)
    ELSE IF ~NoneClose(CollapseWs(Raw)) THEN ClosestTo(prd.pred.account.v, CollapseWs(Raw))
    ELSE prd.pred.account = VStr(Raw)

(* C27, amended: the same of the account with the blanks at its ends taken *)
(* off; an account that is empty then gives the default of the direction.  *)
C27_CatalogNameOrStrippedAccount ==
  CatalogDone =>
    IF Strip(Raw) = "" THEN prd.pred.account = VStr(FallbackAccount(prd.direction))
    ELSE IF Strip(Raw) \in CatalogNames THEN prd.pred.account = VStr(Strip(Raw))
    ELSE IF ~NoneClose(Strip(Raw)) THEN ClosestTo(prd.pred.account.v, Strip(Raw))
    ELSE IF ~NoneClose(CollapseWs(Strip(Raw)))
    THEN ClosestTo(prd.pred.account.v, CollapseWs(Strip(Raw)))
    ELSE prd.pred.account = VStr(Strip(Raw))

(* a near miss below the cutoff is kept, one above it is replaced *)
C27_Witness ==
  /\ CatalogDone
  /\ Raw = "Tavern"
  /\ prd.pred.account = VStr("Tavern")

C27_Replaced == CatalogDone /\ Raw = "Trail" /\ prd.pred.account = VStr("Travel")

C27_CollapsedReplaced ==
  CatalogDone /\ Raw = "Ad        Fee" /\ prd.pred.account = VStr("Ad Fee")

C27_TieGoesToGreater == CatalogDone /\ Raw = "Rnt" /\ prd.pred.account = VStr("Rent")

(* an empty account gives the default account *)
C27_DefaultForced == CatalogDone /\ Raw = "" /\ prd.pred.account = VStr(ZAPPI)

(* the ledger entries that refer to the prediction record p *)
EntriesFor(p) == {j \in 1..Len(db.journal) : db.journal[j].claude_prediction_id = VStr(p.id)}

(* C28: when persist_transactions_to_db has finished, every prediction    *)
(* record written has exactly one ledger entry that refers to it, and     *)
(* there are as many prediction records as transactions counted as saved. *)
C28_PredictionHasItsEntry ==
  pc = "done" =>
    /\ \A i \in 1..Len(db.predictions) : Cardinality(EntriesFor(db.predictions[i])) = 1
    /\ Len(db.predictions) = saved

(* a prediction record was written, its ledger entry was refused: the     *)
(* record stays, with no entry, and the transaction is not counted         *)
C28_PredictionWithoutEntry ==
  /\ pc = "done"
  /\ Len(db.predictions) = 1
  /\ Len(db.journal) = 0
  /\ saved = 0
  /\ Len(perrors) = 1

(* the run is over and every transaction has had its call of predict *)
AllClassified == pc = "done" /\ input.entry = "run" /\ Len(predLog) = Len(transactions)

(* transaction i was classified with a prediction that carries a text *)
CarriesText(i) == ~predLog[i].raised /\ ~IsNone(SharedText(heap, predLog[i].pred))

(* every transaction has its prediction record and its ledger entry *)
AllPersisted ==
  Len(db.predictions) = Len(transactions) /\ Len(db.journal) = Len(transactions)

(* the text is on the transaction under both keys, and in its records *)
TextOnTransaction(i, text) ==
  /\ Get(TxAt(i), "reasoning") = text
  /\ Get(TxAt(i), "claude_description") = text
  /\ AllPersisted => /\ db.predictions[i].reasoning = text
                      /\ db.journal[i].description = text

(* the text is the reasoning of the item _ref names *)
TextOnRef(i, text) ==
  IsDict(Get(TxAt(i), "_ref")) => Get(heap[Get(TxAt(i), "_ref").v], "reasoning") = text

(* C24: a transaction classified with a prediction that carries a          *)
(* reasoning or a description holds one text, the reasoning or else the   *)
(* description, as its reasoning and as its claude_description; that text  *)
(* is the reasoning of its prediction record and the description of its   *)
(* ledger entry, and is the reasoning written on the item _ref names.      *)
C24_OneTextEverywhere ==
  AllClassified =>
    \A i \in 1..Len(transactions) :
      CarriesText(i) => /\ TextOnTransaction(i, SharedText(heap, predLog[i].pred))
                        /\ TextOnRef(i, SharedText(heap, predLog[i].pred))

(* the part of C24 about the transaction and its records *)
C24_OneTextOnTransaction ==
  AllClassified =>
    \A i \in 1..Len(transactions) :
      CarriesText(i) => TextOnTransaction(i, SharedText(heap, predLog[i].pred))

(* a description and no reasoning: the transaction and its records hold    *)
(* the description, the item _ref names holds the empty reasoning          *)
C24_RefHoldsEmptyReasoning ==
  /\ AllClassified
  /\ AllPersisted
  /\ Len(transactions) > 0
  /\ CarriesText(1)
  /\ db.predictions[1].reasoning = VStr("d1")
  /\ db.journal[1].description = VStr("d1")
  /\ IsDict(Get(TxAt(1), "_ref"))
  /\ Get(heap[Get(TxAt(1), "_ref").v], "reasoning") = VStr("")

(* the stages of a run in their order; the three positions of persistence *)
(* are one stage                                                          *)
StageOf(p) ==
  CASE p = "start" -> 1
    [] p = "classify" -> 2
    [] p = "export" -> 3
    [] p \in {"persist", "save_prediction", "save_journal"} -> 4
    [] p = "done" -> 5
    [] OTHER -> 0

(* a step of the classification: the calls for the transactions before    *)
(* idx have returned or raised, this step ends the call for idx, and the   *)
(* next call is for idx + 1                                                *)
ClassifiesInTurn ==
  pc = "classify" =>
    /\ Len(predLog) = idx - 1
    /\ Len(predLog') = idx
    /\ pc' \in {"classify", "export"}
    /\ pc' = "classify" => idx' = idx + 1
    /\ pc' = "export" => idx = Len(transactions)

(* the export text is built once, after the last call of predict, from    *)
(* the values the transactions then have, which are those returned         *)
ExportsClassified ==
  /\ pc = "export" =>
       /\ input.predictor # "none" => Len(predLog) = Len(transactions)
       /\ heap' = heap
       /\ mf_csv' = IF input.generate_mf_csv
                    THEN build_mf_csv_from_transactions(heap, transactions) ELSE VNone
  /\ pc # "export" => mf_csv' = mf_csv
  /\ StageOf(pc) >= 3 => heap' = heap /\ transactions' = transactions

(* the writes for a transaction begin when both writes for the one before *)
(* have ended: it is counted as saved or has an entry in the local errors *)
PersistsInTurn ==
  /\ pc' = "save_prediction" /\ pc # "persist" =>
       /\ pc \in {"save_prediction", "save_journal"}
       /\ idx' = idx + 1
       /\ saved' + Len(perrors') = idx
  /\ pc' = "save_journal" =>
       /\ pc = "save_prediction"
       /\ idx' = idx
       /\ Len(db'.predictions) = Len(db.predictions) + 1
  /\ pc = "save_journal" =>
       /\ pc' \in {"save_prediction", "done"}
       /\ saved' + Len(perrors') = idx
       /\ pc' = "done" => idx = Len(transactions)

(* C25: a run goes once through normalize, classify, export, persist, in   *)
(* this order; the call of the classifier for a transaction begins when    *)
(* the call for the one before has ended, the export text is built from    *)
(* the values after classification, and the writes for a transaction      *)
(* begin when both writes for the one before have ended or failed.         *)
C25_SinglePassInOrder ==
  [][/\ StageOf(pc') > StageOf(pc) \/ (StageOf(pc') = StageOf(pc) /\ StageOf(pc) \in {2, 4})
     /\ ClassifiesInTurn
     /\ ExportsClassified
     /\ PersistsInTurn]_vars

(* a run of three transactions, classified, exported and written *)
C25_Witness ==
  /\ pc = "done"
  /\ input.entry = "run"
  /\ Len(transactions) = 3
  /\ Len(predLog) = 3
  /\ ~IsNone(mf_csv)
  /\ saved + Len(perrors) = 3
  /\ Len(perrors) = 1

(* the objects the caller holds when it calls: the mappings of its list    *)
(* and the items their _ref names                                          *)
CallerObjects == CallerHeap(input.path, input.n)

====
